---- MODULE Spec2Model ----
(***************************************************************************)
(* vol-pulse: the Deribit REST client's retry policy, the ticker fan-out   *)
(* of get_option_chain, and the monitor loop of run_monitor.               *)
(*                                                                         *)
(* Three specifications share this module:                                 *)
(*   SpecCall    one outbound call of DeribitRESTClient, per call site     *)
(*   SpecFanout  _fetch_tickers: asyncio.gather over _fetch_one tasks      *)
(*   SpecMonitor run_monitor in live mode                                  *)
(*   SpecWindow  the sliding window of VolatilityAnalyzer, driven directly *)
(*   SpecStats   set_dvol_history and compute_metrics, driven directly     *)
(* Times are in milliseconds in the client and in units of TimeUnit        *)
(* seconds in the monitor; ratios are compared by cross-multiplication.    *)
(***************************************************************************)
EXTENDS Integers, Sequences, FiniteSets, Bags, TLC

VARIABLES
    \* ---- one client call (deribit_client.py) ----
    call_op,      \* the call site being executed, "none" before the call
    call_pc,      \* "idle", "get", "sleep", "returned", "raised"
    attempt,      \* iteration of `for _ in range(3)` (1-based), 0 before
    delay,        \* local `delay` of _get_with_retry, in ms
    sleeps,       \* the asyncio.sleep(delay) calls made so far, in ms
    outcomes,     \* what each await self._get(...) did, in order
    call_ret,     \* value returned to the caller: "none", "payload", "empty"
    call_exc,     \* error propagated to the caller, "none" if none
    \* ---- the ticker fan-out of get_option_chain (deribit_client.py) ----
    t_pc,         \* per _fetch_one task: "wait", "get", "sleep", "done", "raised"
    t_attempt,    \* per task: iteration of the retry loop, 0 outside the loop
    t_ret,        \* per task: what _get_with_retry returned, "none" if nothing yet
    sem_value,    \* the counter of asyncio.Semaphore(5)
    results,      \* the list `results` up to order: the bag of the names appended
    gather_pc,    \* the awaiting _fetch_tickers: "gather", "returned", "raised"
    \* ---- run_monitor (main.py) ----
    m_pc,         \* "START", "FETCH", "UPDATE", "EVALUATE", "ACT", "SLEEP",
                  \* "EXIT" (break) or "CRASHED" (an error left run_monitor)
    once,         \* the `once` argument
    thresholds,   \* the rule thresholds of constants.py in force for the run
    cycle,        \* number of loop iterations begun
    now_ts,       \* now_ts = time.time() of the current iteration
    snapshot,     \* what FETCH left in the locals of the iteration:
                  \*   spot_price, dvol, options; fetched: the try block
                  \*   completed; degraded: the client calls that came back empty
    price_points, \* deque of <<ts, value>>
    dvol_points,  \* deque of <<ts, value>>
    analyzer,     \* the VolatilityAnalyzer: dvol_points, dvol_history
    skew_history,
    signals,      \* what EVALUATE left in the locals: price_change_1h,
                  \*   dvol_change_1h, metrics, entry_signal, slow_bleed
                  \*   (with the skew history driven alone: the skew of the
                  \*   iteration's skew_report)
    alerts,       \* the AlertMessages handed to alert.send, in order
    \* ---- VolatilityAnalyzer driven directly (volatility_analyzer.py) ----
    an_calls,     \* the calls made on the analyzer: the samples given to
                  \*   add_dvol_point in order, the last argument of
                  \*   set_dvol_history, and the last compute_metrics call
    \* ---- one function called directly ----
    fcall         \* the call: its function fn, its arguments args and what it
                  \*   did (result); <<>> before the call

callVars == <<call_op, call_pc, attempt, delay, sleeps, outcomes, call_ret, call_exc>>

fanVars == <<t_pc, t_attempt, t_ret, sem_value, results, gather_pc>>

monVars == <<m_pc, once, thresholds, cycle, now_ts, snapshot, price_points, dvol_points,
             analyzer, skew_history, signals, alerts>>

anVars == <<an_calls>>

fnVars == <<fcall>>

vars == <<callVars, fanVars, monVars, anVars, fnVars>>

\* What an action of one component leaves alone: the other components.
notCallVars == <<fanVars, monVars, anVars, fnVars>>

notFanVars == <<callVars, monVars, anVars, fnVars>>

notMonVars == <<callVars, fanVars, anVars, fnVars>>

\* What a direct call on the analyzer leaves alone.
notAnVars == <<callVars, fanVars, m_pc, once, thresholds, cycle, now_ts, snapshot,
               price_points, dvol_points, skew_history, signals, alerts, fnVars>>

\* What a direct call of a function leaves alone.
notFnVars == <<callVars, fanVars, monVars, anVars>>

(***************************************************************************)
(* _get: either returns data.get("result", {}) or raises.                  *)
(*   "payload"         a non-empty result                                  *)
(*   "empty"           {} (no "result" key in the response)                *)
(*   "TimeoutError"    asyncio.TimeoutError                                *)
(*   "ClientError429"  a ClientError whose .status is 429                  *)
(*   "ClientError"     any other ClientError (other status, or none)       *)
(*   "Exception"       any other Exception (JSON decoding, AttributeError  *)
(*                     on a malformed payload, urllib errors, ...)         *)
(***************************************************************************)
GetReturns == {"payload", "empty"}
GetRaises == {"TimeoutError", "ClientError429", "ClientError", "Exception"}

\* The call sites of _get / _get_with_retry in the client.
RetryCallSites == {"get_index_price", "get_instruments", "ticker"}
DirectCallSites == {"get_dvol", "get_dvol_history"}
CallSites == RetryCallSites \cup DirectCallSites

\* `delay = 0.25` (seconds), here in milliseconds.
InitialDelay == 250

\* `for _ in range(3)`
MaxAttempts == 3

\* `delay *= 2`
NextDelayNoDoubling(d) == d

NextDelay(d) == d * 2

\* The except clauses of _get_with_retry: what the handler does with an
\* error raised by self._get.
RetryDecision(e) ==
    CASE e = "TimeoutError"   -> "sleep"    \* status != 429, isinstance TimeoutError
      [] e = "ClientError429" -> "sleep"    \* status == 429
      [] e = "ClientError"    -> "raise"    \* status != 429, not a timeout: raise
      [] e = "Exception"      -> "sleep"    \* except Exception: sleep, delay *= 2

\* `return {}` after the loop.
AfterLoopRaises == [pc |-> "raised", ret |-> "none", exc |-> "TimeoutError"]

AfterLoop == [pc |-> "returned", ret |-> "empty", exc |-> "none"]

CallInit ==
    /\ call_op = "none"
    /\ call_pc = "idle"
    /\ attempt = 0
    /\ delay = 0
    /\ sleeps = <<>>
    /\ outcomes = <<>>
    /\ call_ret = "none"
    /\ call_exc = "none"

\* The caller invokes one of the client's operations; control reaches the
\* first `await self._get(...)` of that call site.
Invoke(op) ==
    /\ call_pc = "idle"
    /\ call_op' = op
    /\ call_pc' = "get"
    /\ attempt' = 1
    /\ delay' = IF op \in RetryCallSites THEN InitialDelay ELSE 0
    /\ UNCHANGED <<sleeps, outcomes, call_ret, call_exc>>
    /\ UNCHANGED notCallVars

\* self._get returns r.  Every call site hands the result on.
GetReturn(r) ==
    /\ call_pc = "get"
    /\ outcomes' = Append(outcomes, r)
    /\ call_pc' = "returned"
    /\ call_ret' = r
    /\ UNCHANGED <<call_op, attempt, delay, sleeps, call_exc>>
    /\ UNCHANGED notCallVars

\* self._get raises e inside _get_with_retry.
GetRaiseRetry(e) ==
    /\ call_pc = "get"
    /\ call_op \in RetryCallSites
    /\ outcomes' = Append(outcomes, e)
    /\ IF RetryDecision(e) = "sleep"
         THEN /\ call_pc' = "sleep"
              /\ UNCHANGED call_exc
         ELSE /\ call_pc' = "raised"
              /\ call_exc' = e
    /\ UNCHANGED <<call_op, attempt, delay, sleeps, call_ret>>
    /\ UNCHANGED notCallVars

\* self._get raises e in _get_dvol_data (called by get_dvol): no handler.
GetRaiseDvol(e) ==
    /\ call_pc = "get"
    /\ call_op = "get_dvol"
    /\ outcomes' = Append(outcomes, e)
    /\ call_pc' = "raised"
    /\ call_exc' = e
    /\ UNCHANGED <<call_op, attempt, delay, sleeps, call_ret>>
    /\ UNCHANGED notCallVars

\* self._get raises e in get_dvol_history: except (...): return [].
GetRaiseDvolHistory(e) ==
    /\ call_pc = "get"
    /\ call_op = "get_dvol_history"
    /\ outcomes' = Append(outcomes, e)
    /\ call_pc' = "returned"
    /\ call_ret' = "empty"
    /\ UNCHANGED <<call_op, attempt, delay, sleeps, call_exc>>
    /\ UNCHANGED notCallVars

\* await asyncio.sleep(delay) completes; delay *= 2; next loop iteration,
\* or the `return {}` after the loop.
SleepDone ==
    /\ call_pc = "sleep"
    /\ sleeps' = Append(sleeps, delay)
    /\ delay' = NextDelay(delay)
    /\ IF attempt < MaxAttempts
         THEN /\ attempt' = attempt + 1
              /\ call_pc' = "get"
              /\ UNCHANGED <<call_ret, call_exc>>
         ELSE /\ call_pc' = AfterLoop.pc
              /\ call_ret' = AfterLoop.ret
              /\ call_exc' = AfterLoop.exc
              /\ UNCHANGED attempt
    /\ UNCHANGED <<call_op, outcomes>>
    /\ UNCHANGED notCallVars

CallNext ==
    \/ \E op \in CallSites : Invoke(op)
    \/ \E r \in GetReturns : GetReturn(r)
    \/ \E e \in GetRaises : GetRaiseRetry(e)
    \/ \E e \in GetRaises : GetRaiseDvol(e)
    \/ \E e \in GetRaises : GetRaiseDvolHistory(e)
    \/ SleepDone

(***************************************************************************)
(* _fetch_tickers: one _fetch_one task per filtered instrument name, run   *)
(* by asyncio.gather under asyncio.Semaphore(5).                           *)
(***************************************************************************)
\* Number of instrument names that survive _filter_instruments.
NumInstruments == 6

Names == 1..NumInstruments

\* `sem = asyncio.Semaphore(5)`
SemaphoreLimit == 5

\* Semaphore.locked(): no slot is free.
SemNeverLocked == FALSE

SemLockedWhileSleeping == sem_value <= 0 \/ \E j \in DOMAIN t_pc : t_pc[j] = "sleep"

SemLocked == sem_value <= 0

\* The tasks that are inside `async with sem`.
Holders == {i \in Names : t_pc[i] \in {"get", "sleep"}}

\* `if not result: return` and `results.append({...})` of _fetch_one.
FetchOneAppendAlways(res, name, r) == res (+) SetToBag({name})

FetchOneAppend(res, name, r) == IF r = "empty" THEN res ELSE res (+) SetToBag({name})

FanInit ==
    /\ t_pc = [i \in Names |-> "wait"]
    /\ t_attempt = [i \in Names |-> 0]
    /\ t_ret = [i \in Names |-> "none"]
    /\ sem_value = SemaphoreLimit
    /\ results = EmptyBag
    /\ gather_pc = "gather"

\* `async with sem:` is entered.  gather starts the tasks in the order of
\* `names` and the semaphore wakes its waiters first-in first-out, so task i
\* enters after every task before it.
Acquire(i) ==
    /\ t_pc[i] = "wait"
    /\ ~SemLocked
    /\ \A j \in Names : j < i => t_pc[j] # "wait"
    /\ sem_value' = sem_value - 1
    /\ t_pc' = [t_pc EXCEPT ![i] = "get"]
    /\ t_attempt' = [t_attempt EXCEPT ![i] = 1]
    /\ UNCHANGED <<t_ret, results, gather_pc>>
    /\ UNCHANGED notFanVars

\* _get_with_retry returned r to _fetch_one: drop an empty result, append a
\* quote otherwise, leave `async with sem`.
FetchOneReturns(i, r) ==
    /\ t_ret' = [t_ret EXCEPT ![i] = r]
    /\ results' = FetchOneAppend(results, i, r)
    /\ t_pc' = [t_pc EXCEPT ![i] = "done"]
    /\ t_attempt' = [t_attempt EXCEPT ![i] = 0]
    /\ sem_value' = sem_value + 1
    /\ UNCHANGED gather_pc

\* An error leaves _get_with_retry: it leaves `async with sem` and ends the
\* task; gather hands the first such error to the awaiting _fetch_tickers.
FetchOneRaises(i) ==
    /\ t_pc' = [t_pc EXCEPT ![i] = "raised"]
    /\ t_attempt' = [t_attempt EXCEPT ![i] = 0]
    /\ sem_value' = sem_value + 1
    /\ gather_pc' = IF gather_pc = "gather" THEN "raised" ELSE gather_pc
    /\ UNCHANGED <<t_ret, results>>

\* The ticker request of task i returns r.
TickerReturn(i, r) ==
    /\ t_pc[i] = "get"
    /\ FetchOneReturns(i, r)
    /\ UNCHANGED notFanVars

\* The ticker request of task i raises an error that the handler of
\* _get_with_retry answers with decision d.
TickerRaise(i, d) ==
    /\ t_pc[i] = "get"
    /\ IF d = "sleep"
         THEN /\ t_pc' = [t_pc EXCEPT ![i] = "sleep"]
              /\ UNCHANGED <<t_attempt, t_ret, sem_value, results, gather_pc>>
         ELSE FetchOneRaises(i)
    /\ UNCHANGED notFanVars

\* The backoff sleep of task i ends: next attempt, or the end of the loop.
TickerSleepDone(i) ==
    /\ t_pc[i] = "sleep"
    /\ IF t_attempt[i] < MaxAttempts
         THEN /\ t_attempt' = [t_attempt EXCEPT ![i] = @ + 1]
              /\ t_pc' = [t_pc EXCEPT ![i] = "get"]
              /\ UNCHANGED <<t_ret, sem_value, results, gather_pc>>
         ELSE IF AfterLoop.pc = "returned"
                THEN FetchOneReturns(i, AfterLoop.ret)
                ELSE FetchOneRaises(i)
    /\ UNCHANGED notFanVars

\* `await asyncio.gather(...)` completes once every task has; `return results`.
GatherReturn ==
    /\ gather_pc = "gather"
    /\ \A i \in Names : t_pc[i] = "done"
    /\ gather_pc' = "returned"
    /\ UNCHANGED <<t_pc, t_attempt, t_ret, sem_value, results>>
    /\ UNCHANGED notFanVars

FanNext ==
    \/ \E i \in Names : Acquire(i)
    \/ \E i \in Names, r \in GetReturns : TickerReturn(i, r)
    \/ \E i \in Names, d \in {RetryDecision(e) : e \in GetRaises} : TickerRaise(i, d)
    \/ \E i \in Names : TickerSleepDone(i)
    \/ GatherReturn

FanIdle ==
    /\ t_pc = <<>>
    /\ t_attempt = <<>>
    /\ t_ret = <<>>
    /\ sem_value = SemaphoreLimit
    /\ results = EmptyBag
    /\ gather_pc = "idle"

(***************************************************************************)
(* run_monitor (main.py), live mode, with the statistics engine            *)
(* (volatility_analyzer.py) and the scanner (opportunity_scanner.py).      *)
(*                                                                         *)
(* Units.  Time: one unit is 1800 s.  Prices and DVOL: whole numbers.      *)
(* Deltas and implied vols: hundredths.  Bid and ask: thousandths.         *)
(* An optional value (Python None or a value) is <<>> or <<v>>.  A ratio   *)
(* n/d with d > 0 is the record [num |-> n, den |-> d].                    *)
(***************************************************************************)
None == <<>>

Some(v) == <<v>>

\* 3600 s, the window of _find_change_over_window as run_monitor calls it.
HourUnits == 2

\* 7200 s, the retention of price_points and dvol_points.
RetentionUnits == 4

\* 86400 s: one day, and dvol_window_hours * 3600 of the analyzer.
DayUnits == 48

\* constants.py, in thousandths.
ENTRY_PRICE_DROP_1H == -25

MIN_DVOL_PULSE == 50

SLOW_BLEED_PRICE_DROP_1H == -20

SLOW_BLEED_DVOL_MAX_1H == 0

\* constants.py, in percent.
ENTRY_IVP_THRESHOLD == 70

ENTRY_IVR_THRESHOLD == 50

LOOKBACK_PERIOD == 365

\* TARGET_DELTA, in hundredths, and OPTION_DTE_RANGE_DAYS.
DELTA_MIN == 15

DELTA_MAX == 20

DTE_MIN == 14

DTE_MAX == 30

\* `len(skew_history) > 120`
SKEW_HISTORY_CAP == 120

Abs(x) == IF x < 0 THEN -x ELSE x

Max2(a, b) == IF a >= b THEN a ELSE b

Min2(a, b) == IF a <= b THEN a ELSE b

SeqMin(s) == CHOOSE m \in {s[i] : i \in DOMAIN s} : \A i \in DOMAIN s : m <= s[i]

SeqMax(s) == CHOOSE m \in {s[i] : i \in DOMAIN s} : \A i \in DOMAIN s : m >= s[i]

\* n1/d1 <= t/1000, n1/d1 >= t/1000 for a ratio r with r.den > 0.
RatioLeMille(r, t) == r.num * 1000 <= t * r.den

RatioGeMille(r, t) == r.num * 1000 >= t * r.den

\* n/d > t for a ratio r with r.den > 0.
RatioGt(r, t) == r.num > t * r.den

\* The change against the first sample of the window, in range or not.
FindChangeWholeWindow(points, now, window) ==
    IF points = <<>> THEN None
    ELSE IF points[1][2] = 0 THEN None
    ELSE Some([num |-> points[Len(points)][2] - points[1][2], den |-> points[1][2]])

\* _find_change_over_window(points, now_ts, window_seconds): points is a
\* sequence of <<ts, value>>.
FindChangeOverWindow(points, now, window) ==
    IF points = <<>> THEN None
    ELSE LET cutoff == now - window
             inRange == {i \in DOMAIN points : points[i][1] >= cutoff}
         IN IF inRange = {} THEN None
            ELSE LET first == CHOOSE i \in inRange : \A j \in inRange : i <= j
                     oldest == points[first][2]
                     latest == points[Len(points)][2]
                 IN IF oldest = 0 THEN None
                    ELSE Some([num |-> latest - oldest, den |-> oldest])

\* `while points and points[0][0] < cutoff: points.popleft()`
RECURSIVE TrimWindow(_, _)
TrimWindow(points, cutoff) ==
    IF points # <<>> /\ Head(points)[1] < cutoff
      THEN TrimWindow(Tail(points), cutoff)
      ELSE points

\* VolatilityAnalyzer.add_dvol_point: append, then _trim_window(timestamp).
AddDvolPointNoTrim(points, ts, v) == Append(points, <<ts, v>>)

AddDvolPoint(points, ts, v) == TrimWindow(Append(points, <<ts, v>>), ts - DayUnits)

\* VolatilityAnalyzer.set_dvol_history: values is a sequence of optionals.
RECURSIVE DropNone(_)
DropNone(values) ==
    IF values = <<>> THEN <<>>
    ELSE IF Head(values) = None THEN DropNone(Tail(values))
    ELSE <<Head(values)[1]>> \o DropNone(Tail(values))

\* values[-n:]: the last n values; values[-0:] is values[0:], the whole list,
\* and a negative n gives values[|n|:].
LastN(s, n) ==
    IF n = 0 \/ Len(s) <= n THEN s
    ELSE IF n < 0 THEN SubSeq(s, 1 - n, Len(s))
    ELSE SubSeq(s, Len(s) - n + 1, Len(s))

SetDvolHistory(values, lookback) == LastN(DropNone(values), lookback)

\* `min(max(ivr, 0.0), 100.0)` for ivr = x / den percent, den > 0: the
\* numerator of the clamped value.
NoClamp(x, den) == x

Clamp(x, den) == Min2(Max2(x, 0), 100 * den)

\* VolatilityAnalyzer._compute_ivr, as a ratio in percent.
ComputeIvr(history, current) ==
    IF current = None \/ history = <<>> THEN None
    ELSE LET lo == SeqMin(history)
             hi == SeqMax(history)
         IN IF hi = lo THEN Some([num |-> 0, den |-> 1])
            ELSE Some([num |-> Clamp((current[1] - lo) * 100, hi - lo),
                       den |-> hi - lo])

\* np.sort: insertion of the head into the sorted tail.
RECURSIVE InsertSorted(_, _)
InsertSorted(x, sorted) ==
    IF sorted = <<>> THEN <<x>>
    ELSE IF x <= Head(sorted) THEN <<x>> \o sorted
    ELSE <<Head(sorted)>> \o InsertSorted(x, Tail(sorted))

RECURSIVE NpSort(_)
NpSort(s) == IF s = <<>> THEN <<>> ELSE InsertSorted(Head(s), NpSort(Tail(s)))

\* np.searchsorted(arr, x, side) on a sorted arr: the 0-based index of the
\* first element >= x (side "left") or > x (side "right"), arr.size if none.
SearchSorted(arr, x, side) ==
    LET at == {i \in DOMAIN arr : IF side = "left" THEN arr[i] >= x ELSE arr[i] > x}
    IN IF at = {} THEN Len(arr)
       ELSE (CHOOSE i \in at : \A j \in at : i <= j) - 1

\* `rank = right if right == left else (left + 1 + right) / 2.0`, doubled.
Rank2AlwaysMid(left, right) == left + 1 + right

Rank2NoMid(left, right) == 2 * right

Rank2(left, right) == IF right = left THEN 2 * right ELSE left + 1 + right

\* VolatilityAnalyzer._compute_ivp, as a ratio in percent.
ComputeIvp(history, current) ==
    IF current = None \/ history = <<>> THEN None
    ELSE LET arr == NpSort(history)
             n == Len(arr)
             left == SearchSorted(arr, current[1], "left")
             right == SearchSorted(arr, current[1], "right")
         IN Some([num |-> Rank2(left, right) * 100, den |-> 2 * n])

RECURSIVE SumSeq(_)
\* sum(s) of a sequence of integers.
SumSeq(s) == IF s = <<>> THEN 0 ELSE Head(s) + SumSeq(Tail(s))

\* VolatilityAnalyzer._compute_dvol_slope: the least-squares slope of the
\* window's values over its timestamps shifted to start at 0, as a ratio;
\* None under 2 points, 0 when the last shifted timestamp is 0.
ComputeDvolSlope(points) ==
    IF Len(points) < 2 THEN None
    ELSE LET n == Len(points)
             xs == [i \in 1..n |-> points[i][1] - points[1][1]]
             ys == [i \in 1..n |-> points[i][2]]
             sxy == SumSeq([i \in 1..n |-> xs[i] * ys[i]])
             sxx == SumSeq([i \in 1..n |-> xs[i] * xs[i]])
         IN IF xs[n] = 0 THEN Some([num |-> 0, den |-> 1])
            ELSE Some([num |-> n * sxy - SumSeq(xs) * SumSeq(ys),
                       den |-> n * sxx - SumSeq(xs) * SumSeq(xs)])

\* VolatilityAnalyzer.compute_metrics(current_dvol)
ComputeMetrics(history, points, current) ==
    LET cur == IF current = None /\ points # <<>>
                 THEN Some(points[Len(points)][2]) ELSE current
    IN [ivr |-> ComputeIvr(history, cur), ivp |-> ComputeIvp(history, cur),
        dvol_slope |-> ComputeDvolSlope(points)]

\* The analyzer after compute_metrics: the method assigns to no attribute
\* (it reads the last window sample, it does not take it out).
AfterComputePops(a, current) ==
    IF current = None /\ a.dvol_points # <<>>
      THEN [a EXCEPT !.dvol_points = SubSeq(@, 1, Len(@) - 1)]
      ELSE a

AfterCompute(a, current) == a

\* The thresholds as constants.py sets them.
DefaultThresholds ==
    [entry_price_drop_1h |-> ENTRY_PRICE_DROP_1H,
     min_dvol_pulse |-> MIN_DVOL_PULSE,
     entry_ivp_threshold |-> ENTRY_IVP_THRESHOLD,
     entry_ivr_threshold |-> ENTRY_IVR_THRESHOLD,
     slow_bleed_price_drop_1h |-> SLOW_BLEED_PRICE_DROP_1H,
     slow_bleed_dvol_max_1h |-> SLOW_BLEED_DVOL_MAX_1H]

\* The settings explored: the defaults, and constants.py edited so that a
\* volatility rise of up to 15% still counts as a slow bleed (the two rules
\* then overlap).
ThresholdSettings ==
    {DefaultThresholds, [DefaultThresholds EXCEPT !.slow_bleed_dvol_max_1h = 150]}

\* `(metrics.ivp or 0) > threshold`
\* The same comparison with an undefined rank counted as passing.
OrZeroGtNonePasses(m, t) == IF m = None THEN TRUE ELSE RatioGt(m[1], t)

OrZeroGt(m, t) == IF m = None THEN 0 > t ELSE RatioGt(m[1], t)

\* entry_signal of run_monitor.
EntrySignal(pc1h, dc1h, m) ==
    /\ pc1h # None
    /\ dc1h # None
    /\ RatioLeMille(pc1h[1], thresholds.entry_price_drop_1h)
    /\ RatioGeMille(dc1h[1], thresholds.min_dvol_pulse)
    /\ (OrZeroGt(m.ivp, thresholds.entry_ivp_threshold)
          \/ OrZeroGt(m.ivr, thresholds.entry_ivr_threshold))

\* slow_bleed of run_monitor.
SlowBleed(pc1h, dc1h) ==
    /\ pc1h # None
    /\ dc1h # None
    /\ RatioLeMille(pc1h[1], thresholds.slow_bleed_price_drop_1h)
    /\ RatioLeMille(dc1h[1], thresholds.slow_bleed_dvol_max_1h)

(***************************************************************************)
(* OpportunityScanner.  A quote is a record with the keys _fetch_tickers   *)
(* builds; every field but the name and the type is an optional.  exp is   *)
(* the expiration time in time units.                                      *)
(***************************************************************************)
\* OpportunityScanner._mid_price, doubled: 2 * mid.
MidPrice2(bid, ask) == IF bid > 0 /\ ask > 0 THEN bid + ask ELSE 2 * Max2(bid, ask)

\* opt.get(key, default) of a quote dict; opt.get(key) has default None.
OptGet(opt, key, default) == IF key \in DOMAIN opt THEN opt[key] ELSE default

\* `self.delta_min <= abs_delta <= self.delta_max`
InDeltaBandExclusive(d) == DELTA_MIN < Abs(d) /\ Abs(d) < DELTA_MAX

InDeltaBand(d) == DELTA_MIN <= Abs(d) /\ Abs(d) <= DELTA_MAX

\* What one iteration of the loop of scan does with a quote: "skip"
\* (continue), "raise" (float(None) is a TypeError, x / 0.0 a
\* ZeroDivisionError) or "keep" (a candidate is appended).
ScanStep(opt, spot, now) ==
    LET delta == OptGet(opt, "delta", None)
        mark_iv == OptGet(opt, "mark_iv", None)
        exp == OptGet(opt, "exp", Some(0))
        bid == OptGet(opt, "bid", Some(0))
        ask == OptGet(opt, "ask", Some(0))
        strike == OptGet(opt, "strike", Some(0))
    IN IF opt.option_type # "put" THEN "skip"
       ELSE IF delta = None \/ mark_iv = None THEN "skip"
       ELSE IF ~InDeltaBand(delta[1]) THEN "skip"
       ELSE IF exp = None THEN "raise"
       ELSE IF ~(DTE_MIN * DayUnits <= exp[1] - now /\ exp[1] - now <= DTE_MAX * DayUnits)
              THEN "skip"
       ELSE IF bid = None \/ ask = None THEN "raise"
       ELSE IF MidPrice2(bid[1], ask[1]) <= 0 THEN "skip"
       ELSE IF strike = None THEN "raise"
       ELSE IF spot = 0 THEN "raise"
       ELSE "keep"

\* scan raises: some iteration raises (the loop has no try).
ScanRaises(opts, spot, now) == \E i \in DOMAIN opts : ScanStep(opts[i], spot, now) = "raise"

\* The candidates scan returns, in input order.  premium2 is twice the
\* premium, margin_num the numerator of safety_margin (over spot),
\* annualized_yield the ratio premium * 365 / dte_days.
RECURSIVE Scan(_, _, _, _)
Scan(opts, spot, realized, now) ==
    IF opts = <<>> THEN <<>>
    ELSE LET opt == Head(opts)
             rest == Scan(Tail(opts), spot, realized, now)
             dte_units == OptGet(opt, "exp", Some(0))[1] - now
             premium2 == MidPrice2(OptGet(opt, "bid", Some(0))[1], OptGet(opt, "ask", Some(0))[1])
             strike == OptGet(opt, "strike", Some(0))[1]
         IN IF ScanStep(opt, spot, now) = "keep"
              THEN <<[instrument_name |-> opt.name,
                      strike |-> strike,
                      delta |-> opt.delta[1],
                      mark_iv |-> opt.mark_iv[1],
                      dte_units |-> dte_units,
                      premium2 |-> premium2,
                      annualized_yield |-> [num |-> premium2 * 365 * DayUnits,
                                            den |-> 2 * dte_units],
                      margin_num |-> spot - strike,
                      vrp |-> opt.mark_iv[1] - realized]>> \o rest
              ELSE rest

\* (annualized_yield, safety_margin) of a is >= that of b, lexicographically.
\* yield = premium * 365 / dte_days, safety = (spot - strike) / spot, spot > 0.
KeyGe(a, b) ==
    LET ya == a.premium2 * b.dte_units
        yb == b.premium2 * a.dte_units
    IN ya > yb \/ (ya = yb /\ a.margin_num >= b.margin_num)

\* candidates.sort(key=..., reverse=True); top = candidates[0].  The sort is
\* stable, so the first of the maximal candidates comes first.
TopCandidateUnsorted(cands) == cands[1]

TopCandidate(cands) ==
    LET best == {i \in DOMAIN cands : \A j \in DOMAIN cands : KeyGe(cands[i], cands[j])}
    IN cands[CHOOSE i \in best : \A j \in best : i <= j]

\* OpportunityScanner._find_same_expiry_iv: the winner of a (expiry, type)
\* key is the first quote of least distance to the signed target.
SkewEligible(opts, exp, type) ==
    {i \in DOMAIN opts :
        /\ opts[i].delta # None /\ opts[i].mark_iv # None /\ opts[i].exp # None
        /\ opts[i].exp[1] = exp
        /\ opts[i].option_type = type}

\* The distance to the target taken unsigned for both types.
SkewDistanceUnsigned(opt, target) == Abs(opt.delta[1] - Abs(target))

\* abs(delta - target), target = -abs(target_delta) for a put.
SkewDistance(opt, target) ==
    Abs(opt.delta[1] - (IF opt.option_type = "put" THEN -Abs(target) ELSE Abs(target)))

BestIv(opts, exp, type, target) ==
    LET el == SkewEligible(opts, exp, type)
        least == {i \in el : \A j \in el : SkewDistance(opts[i], target) <= SkewDistance(opts[j], target)}
    IN opts[CHOOSE i \in least : \A j \in least : i <= j].mark_iv[1]

\* The (put_iv, call_iv) pairs _find_same_expiry_iv may return: one per
\* expiry that has both winners; it iterates a set of expiries, so which of
\* several it returns is not determined.  <<>> stands for (None, None).
SameExpiryIv(opts, target) ==
    LET exps == {opts[i].exp[1] : i \in {j \in DOMAIN opts : opts[j].exp # None}}
        both == {e \in exps : SkewEligible(opts, e, "put") # {} /\ SkewEligible(opts, e, "call") # {}}
    IN IF both = {} THEN {None}
       ELSE {<<BestIv(opts, e, "put", target), BestIv(opts, e, "call", target)>> : e \in both}

(***************************************************************************)
(* Python floats: binary floating point, round to nearest, ties to even.   *)
(* The model keeps FloatBits significand bits where a double has 53 and    *)
(* no exponent limits; a float is the exact ratio [num, den], den > 0.     *)
(***************************************************************************)
FloatBits == 4

Rat(n) == [num |-> n, den |-> 1]

RAdd(a, b) == [num |-> a.num * b.den + b.num * a.den, den |-> a.den * b.den]

RSub(a, b) == [num |-> a.num * b.den - b.num * a.den, den |-> a.den * b.den]

RMul(a, b) == [num |-> a.num * b.num, den |-> a.den * b.den]

\* a / b for b > 0.
RDiv(a, b) == [num |-> a.num * b.den, den |-> a.den * b.num]

\* The ratio n / d in lowest terms of 2.
RECURSIVE Halve(_, _)
Halve(n, d) == IF n % 2 = 0 /\ d % 2 = 0 THEN Halve(n \div 2, d \div 2) ELSE [num |-> n, den |-> d]

\* m * base^e as a ratio.
Scaled(m, e, base) ==
    IF e >= 0 THEN Halve(m * base ^ e, 1) ELSE Halve(m, base ^ (0 - e))

\* <<n, d, e>> with n / d * base^e the value given and n / d in
\* [lo, base * lo).
RECURSIVE Normalize(_, _, _, _, _)
Normalize(n, d, e, base, lo) ==
    IF n >= d * base * lo THEN Normalize(n, d * base, e + 1, base, lo)
    ELSE IF n < d * lo THEN Normalize(n * base, d, e - 1, base, lo)
    ELSE <<n, d, e>>

\* The float nearest to n / d > 0.
RoundPos(n, d) ==
    LET s == Normalize(n, d, 0, 2, 2 ^ (FloatBits - 1))
        m == s[1] \div s[2]
        r == s[1] % s[2]
        up == 2 * r > s[2] \/ (2 * r = s[2] /\ m % 2 = 1)
    IN Scaled(IF up THEN m + 1 ELSE m, s[3], 2)

\* The result of an arithmetic operation whose exact value is q.
Fl(q) ==
    IF q.num = 0 THEN Rat(0)
    ELSE IF q.num < 0 THEN [RoundPos(0 - q.num, q.den) EXCEPT !.num = 0 - @]
    ELSE RoundPos(q.num, q.den)

\* q ** 0.5 for q >= 0: the float nearest to the square root.
FSqrt(q) ==
    IF q.num = 0 THEN Rat(0)
    ELSE LET lo == 2 ^ (FloatBits - 1)
             s == Normalize(q.num, q.den, 0, 4, lo * lo)
             t == s[1] \div s[2]
             m == CHOOSE k \in lo..(2 * lo - 1) : k * k <= t /\ t < (k + 1) * (k + 1)
             up == 4 * s[1] > (4 * m * m + 4 * m + 1) * s[2]
         IN Scaled(IF up THEN m + 1 ELSE m, s[3], 2)

\* sum(values) from start: one rounded addition per item.
RECURSIVE FSum(_, _)
FSum(start, values) ==
    IF values = <<>> THEN start ELSE FSum(Fl(RAdd(start, Head(values))), Tail(values))

\* The statistics of analyze_skew for a history of floats:
\* mean, var (Bessel-corrected), std.
SkewStats(history) ==
    LET n == Len(history)
        xs == [i \in 1..n |-> Rat(history[i])]
        mean == Fl(RDiv(FSum(Rat(0), xs), Rat(n)))
        sq == [i \in 1..n |-> LET d == Fl(RSub(xs[i], mean)) IN Fl(RMul(d, d))]
        var == Fl(RDiv(FSum(Rat(0), sq), Rat(Max2(n - 1, 1))))
    IN [mean |-> mean, var |-> var, std |-> FSqrt(var)]

\* The SkewReport of analyze_skew, given the (put_iv, call_iv) pair that
\* _find_same_expiry_iv returned; skews and IVs in hundredths.
SkewReport(pair, history) ==
    IF pair = None
      THEN [skew |-> None, signal |-> "insufficient_data", pricing_error |-> FALSE,
            skew_z |-> None]
    ELSE LET skew == Fl(Rat(pair[1] - pair[2]))
             signal == IF skew.num > 15 * skew.den THEN "bearish_put_premium"
                       ELSE IF skew.num < 0 THEN "fomo_calls_rich"
                       ELSE "neutral"
             stats == SkewStats(history)
             z == Fl(RDiv(Fl(RSub(skew, stats.mean)), stats.std))
         IN IF Len(history) >= 5 /\ stats.std.num > 0
              THEN [skew |-> Some(skew.num \div skew.den), signal |-> signal,
                    pricing_error |-> (z.num >= 2 * z.den), skew_z |-> Some(z)]
              ELSE [skew |-> Some(skew.num \div skew.den), signal |-> signal,
                    pricing_error |-> FALSE, skew_z |-> None]

\* OpportunityScanner._median_iv_by_dte, as twice the median; None without a
\* quote within window_days of target_days.
MedianIvByDte(opts, now, target_days, window_days) ==
    LET near == {i \in DOMAIN opts :
                    /\ opts[i].exp # None /\ opts[i].mark_iv # None
                    /\ Abs(opts[i].exp[1] - now - target_days * DayUnits) <= window_days * DayUnits}
        picked == SelectSeq([i \in DOMAIN opts |-> IF i \in near THEN opts[i].mark_iv ELSE None],
                            LAMBDA v : v # None)
        values == NpSort([i \in DOMAIN picked |-> picked[i][1]])
        mid == Len(values) \div 2
    IN IF values = <<>> THEN None
       ELSE IF Len(values) % 2 = 1 THEN Some(2 * values[mid + 1])
       ELSE Some(values[mid] + values[mid + 1])

\* The signal of analyze_term_structure(options, near_days=7, far_days=30).
TermSignal(opts, now) ==
    LET near_iv == MedianIvByDte(opts, now, 7, 2)
        far_iv == MedianIvByDte(opts, now, 30, 3)
    IN IF near_iv = None \/ far_iv = None THEN "insufficient_data"
       ELSE IF near_iv[1] - far_iv[1] > 0 THEN "near_term_pulse"
       ELSE "normal_carry"

\* `skew_history.append(skew)` alone.
AppendSkewNoEvict(history, skew) == Append(history, skew)

\* `skew_history.append(skew); if len(skew_history) > 120: skew_history.pop(0)`
AppendSkew(history, skew) ==
    LET h == Append(history, skew)
    IN IF Len(h) > SKEW_HISTORY_CAP THEN Tail(h) ELSE h

\* `if skew_report.skew is not None:` append and cap.
UpdateSkewHistory(history, skew) ==
    IF skew = None THEN history ELSE AppendSkew(history, skew[1])

(***************************************************************************)
(* run_monitor, live mode (use_mock = False).                              *)
(***************************************************************************)
\* Number of loop iterations explored.
MaxCycles == 2

\* Time between the time.time() readings of two iterations (poll interval
\* plus the time the iteration took), in time units: 30 and 90 minutes.
Steps == {1, 3}

\* What a client call hands to FETCH: a value, the value of an empty
\* (degraded) result, or an error.
SpotOutcomes == {[kind |-> "value", v |-> 100], [kind |-> "value", v |-> 96],
                 [kind |-> "degraded", v |-> 0], [kind |-> "raise", v |-> 0]}

DvolOutcomes == {[kind |-> "value", v |-> 50], [kind |-> "value", v |-> 53],
                 [kind |-> "value", v |-> 56],
                 [kind |-> "degraded", v |-> 0], [kind |-> "raise", v |-> 0]}

ChainOutcomes == {"quotes", "degraded", "raise"}

\* What public/get_volatility_index_data does at start-up: the request
\* raises, or it answers with no rows, or with three daily closes.
HistoryResponses == {[kind |-> "raise", data |-> <<>>],
                     [kind |-> "value", data |-> <<>>],
                     [kind |-> "value", data |-> <<Some(40), Some(50), Some(60)>>]}

\* get_dvol_history: [] on any error of the request, else the closes.
GetDvolHistory(o) == IF o.kind = "raise" THEN <<>> ELSE o.data

\* What get_dvol_history returns at start-up.
HistoryOutcomes == {GetDvolHistory(o) : o \in HistoryResponses}

\* get_index_price: float(result.get("index_price", 0.0)); {} gives 0.0.
GetIndexPrice(o) == IF o.kind = "degraded" THEN 0 ELSE o.v

\* get_dvol: `if not data: return 0.0`, else float(data[-1][4]).
GetDvol(o) == IF o.kind = "degraded" THEN 0 ELSE o.v

\* The instruments public/get_instruments lists: the four puts of the scan
\* universe among a call of the same expiry as the first, a put one week
\* out and a put past the range.
Instruments(now) ==
    << [instrument_name |-> "C1", option_type |-> "call", expiration_timestamp |-> now + 21 * DayUnits],
       [instrument_name |-> "P1", option_type |-> "put", expiration_timestamp |-> now + 21 * DayUnits],
       [instrument_name |-> "P5", option_type |-> "put", expiration_timestamp |-> now + 7 * DayUnits],
       [instrument_name |-> "P2", option_type |-> "put", expiration_timestamp |-> now + 28 * DayUnits],
       [instrument_name |-> "P3", option_type |-> "put", expiration_timestamp |-> now + 14 * DayUnits],
       [instrument_name |-> "P6", option_type |-> "put", expiration_timestamp |-> now + 31 * DayUnits],
       [instrument_name |-> "P4", option_type |-> "put", expiration_timestamp |-> now + 14 * DayUnits] >>

\* The market data of the public/ticker result of an instrument.
Market(name) ==
    CASE name = "C1" -> [delta |-> 20, mark_iv |-> 60, bid |-> 15, ask |-> 17, strike |-> 115]
      [] name = "P1" -> [delta |-> -18, mark_iv |-> 75, bid |-> 15, ask |-> 17, strike |-> 85]
      [] name = "P2" -> [delta |-> -16, mark_iv |-> 70, bid |-> 12, ask |-> 14, strike |-> 80]
      [] name = "P3" -> [delta |-> -20, mark_iv |-> 80, bid |-> 15, ask |-> 17, strike |-> 88]
      [] name = "P4" -> [delta |-> -19, mark_iv |-> 78, bid |-> 16, ask |-> 16, strike |-> 86]
      [] name = "P5" -> [delta |-> -18, mark_iv |-> 85, bid |-> 6, ask |-> 8, strike |-> 90]
      [] name = "P6" -> [delta |-> -17, mark_iv |-> 68, bid |-> 14, ask |-> 16, strike |-> 80]

\* _filter_instruments with no filter applied.
FilterInstrumentsNone(items, now, range, type) ==
    [i \in DOMAIN items |-> items[i].instrument_name]

\* _filter_instruments(instruments, dte_range_days, option_type): the names
\* of the instruments of the type with days to expiry in the range
\* (inclusive), in listing order.
FilterInstruments(items, now, range, type) ==
    LET Keep(item) ==
            /\ item.option_type = type
            /\ range[1] * DayUnits <= item.expiration_timestamp - now
            /\ item.expiration_timestamp - now <= range[2] * DayUnits
        kept == SelectSeq(items, Keep)
    IN [i \in DOMAIN kept |-> kept[i].instrument_name]

\* The quote _fetch_one builds from the ticker result of an instrument.
Ticker(name, now) ==
    LET item == Instruments(now)[CHOOSE i \in DOMAIN Instruments(now) :
                                     Instruments(now)[i].instrument_name = name]
        data == Market(name)
    IN [name |-> name, option_type |-> item.option_type,
        exp |-> Some(item.expiration_timestamp),
        delta |-> Some(data.delta), mark_iv |-> Some(data.mark_iv),
        bid |-> Some(data.bid), ask |-> Some(data.ask), strike |-> Some(data.strike)]

\* get_option_chain(dte_range_days=(14, 30), option_type="put") when every
\* request succeeds.
LiveQuotes(now) ==
    LET names == FilterInstruments(Instruments(now), now, <<DTE_MIN, DTE_MAX>>, "put")
    IN [i \in DOMAIN names |-> Ticker(names[i], now)]

\* get_option_chain: the quotes of the filtered instruments; [] when the
\* instrument listing came back empty.
GetOptionChain(o, now) == IF o = "degraded" THEN <<>> ELSE LiveQuotes(now)

\* realized_vol_24h = max(dvol / 100.0 - 0.1, 0.0), in hundredths.
RealizedVol(d) == Max2(d - 10, 0)

NoMetrics == [ivr |-> None, ivp |-> None, dvol_slope |-> None]

\* VolatilityAnalyzer.__init__
NewAnalyzer(lookback_days) ==
    [lookback_days |-> lookback_days, dvol_points |-> <<>>, dvol_history |-> <<>>]

\* No direct call has been made on the analyzer.
NoCalls == [add_dvol_point |-> <<>>, set_dvol_history |-> <<>>, compute_metrics |-> <<>>]

NoSnapshot == [fetched |-> FALSE, degraded |-> {}, spot_price |-> 0, dvol |-> 0, options |-> <<>>]

NoSignals == [price_change_1h |-> None, dvol_change_1h |-> None, metrics |-> NoMetrics,
              entry_signal |-> FALSE, slow_bleed |-> FALSE]

MonInit ==
    /\ m_pc = "START"
    /\ once \in BOOLEAN
    /\ thresholds \in ThresholdSettings
    /\ cycle = 0
    /\ now_ts = 0
    /\ snapshot = NoSnapshot
    /\ price_points = <<>>
    /\ dvol_points = <<>>
    /\ analyzer = NewAnalyzer(LOOKBACK_PERIOD)
    /\ skew_history = <<>>
    /\ signals = NoSignals
    /\ alerts = <<>>

\* run_monitor is not running: its locals do not exist.  The analyzer is
\* left to the specification, which may drive one directly.
MonIdle ==
    /\ m_pc = "idle"
    /\ once = FALSE
    /\ thresholds = None
    /\ cycle = 0
    /\ now_ts = 0
    /\ snapshot = None
    /\ price_points = <<>>
    /\ dvol_points = <<>>
    /\ skew_history = <<>>
    /\ signals = None
    /\ alerts = <<>>

\* dvol_history = await client.get_dvol_history(LOOKBACK_PERIOD);
\* analyzer.set_dvol_history(dvol_history)
Start(h) ==
    /\ m_pc = "START"
    /\ analyzer' = [analyzer EXCEPT !.dvol_history = SetDvolHistory(h, analyzer.lookback_days)]
    /\ m_pc' = "FETCH"
    /\ UNCHANGED <<once, thresholds, cycle, now_ts, snapshot, price_points, dvol_points,
                   skew_history, signals, alerts>>
    /\ UNCHANGED notMonVars

\* FETCH: the try block completes.
Fetch(s, d, c) ==
    /\ m_pc = "FETCH"
    /\ cycle < MaxCycles
    /\ s.kind # "raise" /\ d.kind # "raise" /\ c # "raise"
    /\ cycle' = cycle + 1
    /\ snapshot' = [fetched |-> TRUE,
                    degraded |-> (IF s.kind = "degraded" THEN {"index_price"} ELSE {})
                        \cup (IF d.kind = "degraded" THEN {"volatility_index"} ELSE {})
                        \cup (IF c = "degraded" THEN {"option_chain"} ELSE {}),
                    spot_price |-> GetIndexPrice(s),
                    dvol |-> GetDvol(d),
                    options |-> GetOptionChain(c, now_ts)]
    /\ m_pc' = "UPDATE"
    /\ UNCHANGED <<once, thresholds, now_ts, price_points, dvol_points, analyzer, skew_history,
                   signals, alerts>>
    /\ UNCHANGED notMonVars

\* Where `except Exception` of FETCH sends the iteration: to the sleep of
\* line 104 and `continue`.
OnFetchErrorFallThrough == "UPDATE"

OnFetchError == "SLEEP"

\* FETCH: one of the three calls raises.  The locals keep their old values.
FetchFail ==
    /\ m_pc = "FETCH"
    /\ cycle < MaxCycles
    /\ \E s \in SpotOutcomes, d \in DvolOutcomes, c \in ChainOutcomes :
           s.kind = "raise" \/ d.kind = "raise" \/ c = "raise"
    /\ cycle' = cycle + 1
    /\ snapshot' = [snapshot EXCEPT !.fetched = FALSE, !.degraded = {}]
    /\ m_pc' = OnFetchError
    /\ UNCHANGED <<once, thresholds, now_ts, price_points, dvol_points, analyzer, skew_history,
                   signals, alerts>>
    /\ UNCHANGED notMonVars

\* UPDATE: lines 107-114.
Update ==
    /\ m_pc = "UPDATE"
    /\ analyzer' = [analyzer EXCEPT
                      !.dvol_points = AddDvolPoint(@, now_ts, snapshot.dvol)]
    /\ price_points' = TrimWindow(Append(price_points, <<now_ts, snapshot.spot_price>>),
                                  now_ts - RetentionUnits)
    /\ dvol_points' = TrimWindow(Append(dvol_points, <<now_ts, snapshot.dvol>>),
                                 now_ts - RetentionUnits)
    /\ m_pc' = "EVALUATE"
    /\ UNCHANGED <<once, thresholds, cycle, now_ts, snapshot, skew_history, signals, alerts>>
    /\ UNCHANGED notMonVars

\* EVALUATE: lines 116-143.
Evaluate ==
    /\ m_pc = "EVALUATE"
    /\ LET pc1h == FindChangeOverWindow(price_points, now_ts, HourUnits)
           dc1h == FindChangeOverWindow(dvol_points, now_ts, HourUnits)
           m == ComputeMetrics(analyzer.dvol_history, analyzer.dvol_points, Some(snapshot.dvol))
       IN signals' = [price_change_1h |-> pc1h,
                      dvol_change_1h |-> dc1h,
                      metrics |-> m,
                      entry_signal |-> EntrySignal(pc1h, dc1h, m),
                      slow_bleed |-> SlowBleed(pc1h, dc1h)]
    /\ m_pc' = "ACT"
    /\ UNCHANGED <<once, thresholds, cycle, now_ts, snapshot, price_points, dvol_points, analyzer,
                   skew_history, alerts>>
    /\ UNCHANGED notMonVars

SlowBleedAlert == [title |-> "Slow Bleed Trap", instrument |-> "", cycle |-> cycle]

EntryAlert(top, skew_report, term_signal) ==
    [title |-> "IV Pulse Entry", instrument |-> top.instrument_name, cycle |-> cycle,
     skew_signal |-> skew_report.signal, pricing_error |-> skew_report.pricing_error,
     term_signal |-> term_signal]

\* `if entry_signal and not slow_bleed:` (line 163)
ScanGuardEntryOnly(sig) == sig.entry_signal

ScanGuard(sig) == sig.entry_signal /\ ~sig.slow_bleed

\* ACT: lines 152-204.  `sent` is the alert list after the slow-bleed branch.
Act ==
    /\ m_pc = "ACT"
    /\ LET sent == IF signals.slow_bleed THEN Append(alerts, SlowBleedAlert) ELSE alerts
       IN IF ~ScanGuard(signals)
            THEN /\ alerts' = sent
                 /\ m_pc' = "SLEEP"
                 /\ UNCHANGED skew_history
          ELSE IF ScanRaises(snapshot.options, snapshot.spot_price, now_ts)
            THEN /\ alerts' = sent
                 /\ m_pc' = "CRASHED"
                 /\ UNCHANGED skew_history
          ELSE LET candidates == Scan(snapshot.options, snapshot.spot_price,
                                      RealizedVol(snapshot.dvol), now_ts)
               IN IF candidates = <<>>
                    THEN /\ alerts' = sent
                         /\ m_pc' = "SLEEP"
                         /\ UNCHANGED skew_history
                    ELSE /\ \E pair \in SameExpiryIv(snapshot.options, 20) :
                              LET skew_report == SkewReport(pair, skew_history)
                              IN /\ skew_history' = UpdateSkewHistory(skew_history, skew_report.skew)
                                 /\ alerts' = Append(sent, EntryAlert(TopCandidate(candidates),
                                                  skew_report, TermSignal(snapshot.options, now_ts)))
                         /\ m_pc' = "SLEEP"
    /\ UNCHANGED <<once, thresholds, cycle, now_ts, snapshot, price_points, dvol_points,
                   analyzer, signals>>
    /\ UNCHANGED notMonVars

\* `if once: break` after a completed iteration.
Break ==
    /\ m_pc = "SLEEP"
    /\ snapshot.fetched /\ once
    /\ m_pc' = "EXIT"
    /\ UNCHANGED <<once, thresholds, cycle, now_ts, snapshot, price_points, dvol_points, analyzer,
                   skew_history, signals, alerts>>
    /\ UNCHANGED notMonVars

\* SLEEP: await asyncio.sleep(poll_interval) (line 104 after a failed FETCH,
\* line 209 otherwise), then now_ts = time.time() of the next iteration.
Sleep(dt) ==
    /\ m_pc = "SLEEP"
    /\ ~(snapshot.fetched /\ once)
    /\ now_ts' = now_ts + dt
    /\ m_pc' = "FETCH"
    /\ UNCHANGED <<once, thresholds, cycle, snapshot, price_points, dvol_points, analyzer,
                   skew_history, signals, alerts>>
    /\ UNCHANGED notMonVars

MonNext ==
    \/ \E h \in HistoryOutcomes : Start(h)
    \/ \E s \in SpotOutcomes, d \in DvolOutcomes, c \in ChainOutcomes : Fetch(s, d, c)
    \/ FetchFail
    \/ Update
    \/ Evaluate
    \/ Act
    \/ Break
    \/ \E dt \in Steps : Sleep(dt)

(***************************************************************************)
(* VolatilityAnalyzer driven directly through its public methods.          *)
(***************************************************************************)
\* Number of add_dvol_point calls explored.
MaxInserts == 3

\* Longest argument of set_dvol_history explored (besides the examples).
MaxHistoryLen == 3

\* Timestamps handed to add_dvol_point, in time units: around one and two
\* retention periods.
WindowTimes == {0, 1, 47, 48, 49, 97}

\* lookback_days of the analyzer under test.
Lookbacks == {0, 1, 2, LOOKBACK_PERIOD}

HistoryValues == {None, Some(10), Some(20), Some(30)}

\* The arguments of set_dvol_history: every sequence of optional values up
\* to MaxHistoryLen, and two longer series.
HistoryInputs ==
    UNION {[1..n -> HistoryValues] : n \in 0..MaxHistoryLen}
        \cup {<<Some(10), Some(20), Some(20), Some(30)>>,
              <<Some(20), Some(30), Some(10), Some(20)>>,
              <<Some(10), Some(20), Some(30), Some(40), Some(50)>>,
              <<Some(50), Some(10), Some(40), Some(20), Some(30)>>}

\* The arguments of compute_metrics.
Currents == {None} \cup {Some(c) : c \in {5, 10, 15, 20, 25, 30, 40, 55}}

\* analyzer.add_dvol_point(ts, v); v numbers the samples.
AnAddPoint(ts) ==
    /\ m_pc = "idle"
    /\ Len(an_calls.add_dvol_point) < MaxInserts
    /\ LET v == Len(an_calls.add_dvol_point) + 1
       IN /\ analyzer' = [analyzer EXCEPT !.dvol_points = AddDvolPoint(@, ts, v)]
          /\ an_calls' = [an_calls EXCEPT !.add_dvol_point = Append(@, <<ts, v>>),
                                          !.compute_metrics = None]
    /\ UNCHANGED notAnVars

\* analyzer.set_dvol_history(values); `again` tells a call that replaces the
\* series of an earlier one.
AnSetHistory(values) ==
    /\ m_pc = "idle"
    /\ analyzer' = [analyzer EXCEPT
                      !.dvol_history = SetDvolHistory(values, analyzer.lookback_days)]
    /\ an_calls' = [an_calls EXCEPT
                      !.set_dvol_history = Some([values |-> values, again |-> @ # None]),
                      !.compute_metrics = None]
    /\ UNCHANGED notAnVars

\* analyzer.compute_metrics(current); `again` tells a call that repeats the
\* argument of the call before it, with no add_dvol_point or
\* set_dvol_history in between.
AnCompute(current) ==
    /\ m_pc = "idle"
    /\ an_calls' = [an_calls EXCEPT
                      !.compute_metrics =
                          Some([current |-> current,
                                again |-> (@ # None /\ @[1].current = current),
                                result |-> ComputeMetrics(analyzer.dvol_history,
                                                          analyzer.dvol_points, current)])]
    /\ analyzer' = AfterCompute(analyzer, current)
    /\ UNCHANGED notAnVars

WindowNext == \E ts \in WindowTimes : AnAddPoint(ts)

\* Timestamps, histories and arguments of the mixed call sequences.
QueryTimes == {0, 1, 49}

QueryHistories == {<<>>, <<Some(10), Some(20), Some(30)>>}

QueryCurrents == {None, Some(20), Some(25)}

QueryNext ==
    \/ \E ts \in QueryTimes : AnAddPoint(ts)
    \/ \E values \in QueryHistories : AnSetHistory(values)
    \/ \E current \in QueryCurrents : AnCompute(current)

StatsNext ==
    \/ \E values \in HistoryInputs : AnSetHistory(values)
    \/ \E current \in Currents : AnCompute(current)

(***************************************************************************)
(* One function called directly, on inputs drawn from bounded sets.        *)
(***************************************************************************)
NoCall == None

\* fn(args) returned value / raised.
Returned(value) == [raised |-> FALSE, value |-> value]

Raised == [raised |-> TRUE, value |-> None]

\* Longest chain given to scan.
MaxScanQuotes == 2

\* now_ts of the call, and a quote that passes every filter of scan.
ScanNow == 10

BaseQuote ==
    [name |-> "ok", option_type |-> "put", exp |-> Some(ScanNow + 21 * DayUnits),
     delta |-> Some(-18), mark_iv |-> Some(75), bid |-> Some(15), ask |-> Some(17),
     strike |-> Some(85)]

\* The quote dict without a key.
Without(opt, key) == [k \in DOMAIN opt \ {key} |-> opt[k]]

\* The quotes scan is given: the base quote with one defect or one boundary
\* value each (a field null or missing, a value at or past a limit).
ScanQuotes ==
    << BaseQuote,
       [BaseQuote EXCEPT !.name = "call", !.option_type = "call"],
       [BaseQuote EXCEPT !.name = "d10", !.delta = Some(-10)],
       [BaseQuote EXCEPT !.name = "d14", !.delta = Some(-14)],
       [BaseQuote EXCEPT !.name = "d15", !.delta = Some(-15)],
       [BaseQuote EXCEPT !.name = "d20", !.delta = Some(-20)],
       [BaseQuote EXCEPT !.name = "d21", !.delta = Some(-21)],
       [BaseQuote EXCEPT !.name = "dpos", !.delta = Some(18)],
       [BaseQuote EXCEPT !.name = "dnull", !.delta = None],
       Without([BaseQuote EXCEPT !.name = "dmiss"], "delta"),
       [BaseQuote EXCEPT !.name = "ivnull", !.mark_iv = None],
       Without([BaseQuote EXCEPT !.name = "ivmiss"], "mark_iv"),
       [BaseQuote EXCEPT !.name = "iv40", !.mark_iv = Some(40)],
       [BaseQuote EXCEPT !.name = "e13", !.exp = Some(ScanNow + DTE_MIN * DayUnits - 1)],
       [BaseQuote EXCEPT !.name = "e14", !.exp = Some(ScanNow + DTE_MIN * DayUnits)],
       [BaseQuote EXCEPT !.name = "e30", !.exp = Some(ScanNow + DTE_MAX * DayUnits)],
       [BaseQuote EXCEPT !.name = "e31", !.exp = Some(ScanNow + DTE_MAX * DayUnits + 1)],
       [BaseQuote EXCEPT !.name = "enull", !.exp = None],
       Without([BaseQuote EXCEPT !.name = "emiss"], "exp"),
       [BaseQuote EXCEPT !.name = "bnull", !.bid = None],
       [BaseQuote EXCEPT !.name = "anull", !.ask = None],
       Without([BaseQuote EXCEPT !.name = "bmiss"], "bid"),
       Without(Without([BaseQuote EXCEPT !.name = "bamiss"], "bid"), "ask"),
       [BaseQuote EXCEPT !.name = "b0", !.bid = Some(0)],
       [BaseQuote EXCEPT !.name = "a0", !.ask = Some(0)],
       [BaseQuote EXCEPT !.name = "ba0", !.bid = Some(0), !.ask = Some(0)],
       [BaseQuote EXCEPT !.name = "knull", !.strike = None],
       Without([BaseQuote EXCEPT !.name = "kmiss"], "strike"),
       [BaseQuote EXCEPT !.name = "k120", !.strike = Some(120)],
       [BaseQuote EXCEPT !.name = "d10bnull", !.delta = Some(-10), !.bid = None] >>

\* Chains of up to n of m quotes, as sequences of indices.
IndexSeqs(m, n) == UNION {[1..k -> 1..m] : k \in 0..n}

\* spot_price (0 from a degraded get_index_price) and realized_vol_24h.
ScanSpots == {0, 100}

ScanRealized == {0, 45}

\* scanner.scan(options, spot_price, realized_vol_24h, now_ts)
CallScan(options, spot, realized) ==
    /\ fcall = NoCall
    /\ fcall' = Some([fn |-> "scan",
                      args |-> [options |-> options, spot_price |-> spot,
                                realized_vol_24h |-> realized, now_ts |-> ScanNow],
                      result |-> IF ScanRaises(options, spot, ScanNow) THEN Raised
                                 ELSE Returned(Scan(options, spot, realized, ScanNow))])
    /\ UNCHANGED notFnVars

\* RiskEngine.max_contracts_allowed(open_contracts_btc), amounts in
\* hundredths of a BTC.
MaxContractsNoFloor(limits, open) == Min2(limits.max_single_btc, limits.max_total_btc - open)

MaxContractsAllowed(limits, open) ==
    LET remaining_total == Max2(limits.max_total_btc - open, 0)
    IN Max2(Min2(limits.max_single_btc, remaining_total), 0)

\* Limits and open sizes: zero, equal, single above total, open above total.
RiskAmounts == {0, 5, 10, 15, 20, 25}

\* RiskEngine(balance, RiskLimits(single, total)).max_contracts_allowed(open)
CallMaxContracts(single, total, open) ==
    /\ fcall = NoCall
    /\ LET limits == [max_single_btc |-> single, max_total_btc |-> total]
       IN fcall' = Some([fn |-> "max_contracts_allowed",
                         args |-> [limits |-> limits, open_contracts_btc |-> open],
                         result |-> Returned(MaxContractsAllowed(limits, open))])
    /\ UNCHANGED notFnVars

\* Longest window given to _find_change_over_window.
MaxPoints == 3

\* now_ts of the call, timestamps up to it and values (0: a degraded fetch).
FindNow == 3

FindSamples == {<<ts, v>> : ts \in 0..FindNow, v \in {0, 96, 100}}

FindWindows == UNION {[1..k -> FindSamples] : k \in 0..MaxPoints}

\* _find_change_over_window(points, now_ts, 3600)
CallFindChange(points) ==
    /\ fcall = NoCall
    /\ fcall' = Some([fn |-> "_find_change_over_window",
                      args |-> [points |-> points, now_ts |-> FindNow,
                                window_seconds |-> HourUnits],
                      result |-> Returned(FindChangeOverWindow(points, FindNow, HourUnits))])
    /\ UNCHANGED notFnVars

\* Longest chain given to analyze_skew.
MaxSkewQuotes == 3

\* Quotes of two expiries for analyze_skew: puts and calls around the target
\* delta 0.20, two puts of equal delta, and quotes with a null field or
\* another option type.
SkewQuote(name, type, exp, delta, iv) ==
    [name |-> name, option_type |-> type, exp |-> exp, delta |-> delta, mark_iv |-> iv]

SkewQuotes ==
    << SkewQuote("pA", "put", Some(ScanNow + 21 * DayUnits), Some(-10), Some(13)),
       SkewQuote("pB", "put", Some(ScanNow + 21 * DayUnits), Some(-25), Some(30)),
       SkewQuote("pC", "put", Some(ScanNow + 21 * DayUnits), Some(-25), Some(28)),
       SkewQuote("cD", "call", Some(ScanNow + 21 * DayUnits), Some(18), Some(24)),
       SkewQuote("cE", "call", Some(ScanNow + 21 * DayUnits), Some(30), Some(10)),
       SkewQuote("cF", "call", Some(ScanNow + 28 * DayUnits), Some(20), Some(8)),
       SkewQuote("pG", "put", Some(ScanNow + 28 * DayUnits), Some(-20), Some(13)),
       SkewQuote("pH", "put", Some(ScanNow + 21 * DayUnits), None, Some(15)),
       SkewQuote("pI", "put", None, Some(-20), Some(14)),
       SkewQuote("xJ", "future", Some(ScanNow + 21 * DayUnits), Some(-20), Some(12)),
       SkewQuote("cK", "call", Some(ScanNow + 21 * DayUnits), Some(20), None) >>

\* Skew histories: short, constant, and the varied one of the z-score example.
SkewHistories ==
    {<<>>, <<5, 5, 5, 5>>, <<5, 5, 5, 5, 5>>, <<5, 5, 5, 5, 5, 5>>, <<5, 6, 4, 5, 7>>}

\* analyze_skew leaves the list it is given alone (`skew_history or []` is
\* only read).
HistoryAfterSkew(history) == history

\* scanner.analyze_skew(options, target_delta=0.20, skew_history=history)
CallAnalyzeSkew(options, history) ==
    /\ fcall = NoCall
    /\ \E pair \in SameExpiryIv(options, 20) :
          fcall' = Some([fn |-> "analyze_skew",
                         args |-> [options |-> options, target_delta |-> 20,
                                   skew_history |-> history],
                         result |-> Returned(SkewReport(pair, history)),
                         skew_history |-> HistoryAfterSkew(history)])
    /\ UNCHANGED notFnVars

\* One call; nothing follows it.
FnNext ==
    \/ /\ fcall = NoCall
       /\ \E ix \in IndexSeqs(Len(ScanQuotes), MaxScanQuotes), spot \in ScanSpots,
             realized \in ScanRealized :
               CallScan([i \in DOMAIN ix |-> ScanQuotes[ix[i]]], spot, realized)
    \/ /\ fcall = NoCall
       /\ \E single \in RiskAmounts, total \in RiskAmounts, open \in RiskAmounts :
               CallMaxContracts(single, total, open)
    \/ /\ fcall = NoCall
       /\ \E points \in FindWindows : CallFindChange(points)
    \/ /\ fcall = NoCall
       /\ \E ix \in IndexSeqs(Len(SkewQuotes), MaxSkewQuotes), history \in SkewHistories :
               CallAnalyzeSkew([i \in DOMAIN ix |-> SkewQuotes[ix[i]]], history)

(***************************************************************************)
(* The skew history over many iterations: lines 179-183 of run_monitor     *)
(* with the skew of each report drawn freely.                              *)
(***************************************************************************)
\* Number of non-null skews explored; past SKEW_HISTORY_CAP.
MaxSkews == 122

\* The skews are numbered in the order they are computed.
NextSkew == IF skew_history = <<>> THEN 1 ELSE skew_history[Len(skew_history)] + 1

\* One iteration that reaches analyze_skew; signals holds its report.
SkewCycle(skew) ==
    /\ m_pc = "idle"
    /\ skew # None => skew[1] <= MaxSkews
    /\ signals' = Some([skew |-> skew])
    /\ skew_history' = UpdateSkewHistory(skew_history, skew)
    /\ UNCHANGED <<once, thresholds, cycle, now_ts, snapshot, price_points, dvol_points,
                   analyzer, alerts, m_pc>>
    /\ UNCHANGED notMonVars

SkewNext == \E skew \in {None, Some(NextSkew)} : SkewCycle(skew)

\* One client call; no fan-out is running.
InitCall ==
    /\ CallInit
    /\ FanIdle
    /\ MonIdle
    /\ analyzer = None
    /\ an_calls = None
    /\ fcall = None

SpecCall == InitCall /\ [][CallNext]_vars

\* The fan-out alone; the single-call variables stay at rest.
InitFanout ==
    /\ FanInit
    /\ CallInit
    /\ MonIdle
    /\ analyzer = None
    /\ an_calls = None
    /\ fcall = None

SpecFanout == InitFanout /\ [][FanNext]_vars

\* The monitor loop; the client calls of FETCH appear by their outcomes.
InitMonitor ==
    /\ MonInit
    /\ CallInit
    /\ FanIdle
    /\ an_calls = None
    /\ fcall = None

SpecMonitor == InitMonitor /\ [][MonNext]_vars

\* A fresh analyzer with the default lookback, fed samples.
InitWindow ==
    /\ CallInit
    /\ FanIdle
    /\ MonIdle
    /\ analyzer = NewAnalyzer(LOOKBACK_PERIOD)
    /\ an_calls = NoCalls
    /\ fcall = None

SpecWindow == InitWindow /\ [][WindowNext]_vars

\* A fresh analyzer with the default lookback: samples, histories and
\* queries in any order.
InitQuery ==
    /\ CallInit
    /\ FanIdle
    /\ MonIdle
    /\ analyzer = NewAnalyzer(LOOKBACK_PERIOD)
    /\ an_calls = NoCalls
    /\ fcall = None

SpecQuery == InitQuery /\ [][QueryNext]_vars

\* One function of the scanner, the risk engine or the monitor, called once.
InitFunctions ==
    /\ CallInit
    /\ FanIdle
    /\ MonIdle
    /\ analyzer = None
    /\ an_calls = None
    /\ fcall = NoCall

SpecFunctions == InitFunctions /\ [][FnNext]_vars

\* The skew history of a monitor, empty at the start.
InitSkewHistory ==
    /\ CallInit
    /\ FanIdle
    /\ MonIdle
    /\ analyzer = None
    /\ an_calls = None
    /\ fcall = None

SpecSkewHistory == InitSkewHistory /\ [][SkewNext]_vars

\* A fresh analyzer of some lookback, given histories and queried.
InitStats ==
    /\ CallInit
    /\ FanIdle
    /\ MonIdle
    /\ analyzer \in {NewAnalyzer(lookback_days) : lookback_days \in Lookbacks}
    /\ an_calls = NoCalls
    /\ fcall = None

SpecStats == InitStats /\ [][StatsNext]_vars

(***************************************************************************)
(* Properties of one client call (checked under SpecCall).                 *)
(***************************************************************************)
CallFinished == call_pc \in {"returned", "raised"}

\* C1: inside the retry policy, an error that is neither a timeout nor an
\* HTTP 429 ends the call at once: it is the last attempt, no backoff sleep
\* follows it, and the same error reaches the caller.
C1_OtherErrorsNotRetried ==
    call_op \in RetryCallSites =>
        \A k \in 1..Len(outcomes) :
            outcomes[k] \in {"ClientError", "Exception"} =>
                /\ k = Len(outcomes)
                /\ Len(sleeps) = k - 1
                /\ call_pc = "raised"
                /\ call_exc = outcomes[k]

\* C4: on every operation of the client, a call whose first attempt timed
\* out has made a backoff sleep and a second attempt by the time it ends.
C4_EveryCallRetriesTimeout ==
    (CallFinished /\ Len(outcomes) >= 1 /\ outcomes[1] = "TimeoutError") =>
        /\ Len(outcomes) >= 2
        /\ Len(sleeps) >= 1

\* C5: a retried call makes at most 3 attempts; the k-th timeout or 429 is
\* followed by a backoff sleep of 0.25s * 2^(k-1) and, for k < 3, by another
\* attempt; timeout, timeout, success returns the payload after 0.75s of sleep.
C5_RetryBackoff ==
    call_op \in RetryCallSites =>
        /\ Len(outcomes) <= 3
        /\ attempt <= 3
        /\ \A k \in 1..Len(outcomes) :
               outcomes[k] \in {"TimeoutError", "ClientError429"} =>
                   IF Len(sleeps) >= k
                     THEN /\ sleeps[k] = 250 * 2^(k - 1)
                          /\ k < 3 => (Len(outcomes) > k \/ call_pc = "get")
                     ELSE /\ call_pc = "sleep"
                          /\ delay = 250 * 2^(k - 1)
        /\ outcomes = <<"TimeoutError", "TimeoutError", "payload">> =>
               /\ call_pc = "returned"
               /\ call_ret = "payload"
               /\ sleeps = <<250, 500>>
               /\ SumSeq(sleeps) = 750

C5_Witness ==
    /\ call_op \in RetryCallSites
    /\ outcomes = <<"TimeoutError", "TimeoutError", "payload">>
    /\ call_pc = "returned"

\* C6: when all 3 attempts of a retried call fail with timeouts or 429s, in
\* any mix, the call returns the empty result and raises nothing.
C6_ExhaustedReturnsEmpty ==
    ( /\ call_op \in RetryCallSites
      /\ Len(outcomes) = 3
      /\ \A k \in 1..3 : outcomes[k] \in {"TimeoutError", "ClientError429"} ) =>
        /\ call_pc \in {"sleep", "returned"}
        /\ call_exc = "none"
        /\ call_pc = "returned" => call_ret = "empty"

C6_Witness ==
    /\ call_op \in RetryCallSites
    /\ outcomes = <<"TimeoutError", "ClientError429", "TimeoutError">>
    /\ call_pc = "returned"
    /\ call_ret = "empty"

(***************************************************************************)
(* Properties of the ticker fan-out (checked under SpecFanout).            *)
(***************************************************************************)
AllTasksEnded == \A i \in Names : t_pc[i] \in {"done", "raised"}

\* A fetch that failed: it raised, or it ran out of retries and came back empty.
FailedFetches == {i \in Names : t_pc[i] = "raised" \/ (t_pc[i] = "done" /\ t_ret[i] = "empty")}

\* The first task still waiting to enter `async with sem`.
NextWaiter(i) == t_pc[i] = "wait" /\ \A j \in Names : j < i => t_pc[j] # "wait"

\* C2: when the fetch of exactly one instrument fails and all the others
\* succeed, the fan-out does not raise, and it holds the quotes of the others.
C2_SingleFailureIsolated ==
    (AllTasksEnded /\ Cardinality(FailedFetches) = 1) =>
        /\ gather_pc # "raised"
        /\ BagToSet(results) = Names \ FailedFetches

\* C3: at no time do more than 5 ticker requests hold a slot of the
\* semaphore (in an attempt or in a backoff sleep between attempts), so at
\* most 5 requests are in flight, whatever the interleaving.
C3_AtMostFiveInFlight == Cardinality(Holders) <= 5

C3_Witness ==
    /\ Cardinality(Holders) = 5
    /\ \E i \in Names : t_pc[i] = "wait"
    /\ \E j \in Names : t_pc[j] = "sleep"
    /\ \E j \in Names : t_pc[j] = "get" /\ t_attempt[j] > 1

\* C9 as claimed: a request waiting to start is never held back while
\* another request is in its backoff sleep.
C9_SleepNeverDelaysWaiter ==
    \A i \in Names :
        (NextWaiter(i) /\ ~ENABLED Acquire(i)) =>
            \A j \in Names : t_pc[j] # "sleep"

\* C9 as amended: a request in backoff keeps its slot.  It never stops a
\* sibling that holds a slot from completing its attempt, and whenever fewer
\* than 5 requests hold a slot the next waiting request can start at once,
\* sleepers or not: a sleep delays a waiting request only while all 5 slots
\* are held.
C9_SleepDelaysOnlyAtCap ==
    /\ \A i \in Names :
           (NextWaiter(i) /\ Cardinality(Holders) < 5) => ENABLED Acquire(i)
    /\ \A i \in Names :
           t_pc[i] = "get" => ENABLED TickerReturn(i, "payload")

C9_Witness ==
    /\ \E i \in Names : NextWaiter(i)
    /\ Cardinality(Holders) < 5
    /\ \E j \in Names : t_pc[j] = "sleep"
    /\ \E j \in Names : t_pc[j] = "get"

\* C10: when no fetch raised, the returned collection holds exactly one
\* quote for each instrument whose fetch returned a payload and nothing else,
\* whatever the order in which the fetches completed.
C10_ResultsArePayloads ==
    gather_pc = "returned" =>
        /\ BagToSet(results) \subseteq Names
        /\ \A i \in Names :
               CopiesIn(i, results) = IF t_ret[i] = "payload" THEN 1 ELSE 0
        /\ \A i \in Names : t_pc[i] = "done"

C10_Witness ==
    /\ gather_pc = "returned"
    /\ \E i \in Names : t_ret[i] = "payload"
    /\ \E i \in Names : t_ret[i] = "empty"
    /\ BagCardinality(results) >= 2

(***************************************************************************)
(* Properties of the monitor loop (checked under SpecMonitor).             *)
(***************************************************************************)
\* The samples a window holds for the current iteration.
SamplesNow(points) == {i \in DOMAIN points : points[i][1] = now_ts}

PastUpdate == snapshot.fetched /\ m_pc \in {"EVALUATE", "ACT", "SLEEP", "EXIT", "CRASHED"}

\* C7: in continuous mode no error leaves the loop and the loop does not
\* end: whatever the fetches return, run_monitor is never left.
C7_LoopNeverDies == ~once => m_pc \notin {"CRASHED", "EXIT"}

\* C8: in an iteration where a client call came back empty, no value stands
\* in for the missing one in the price window, the volatility window or the
\* statistics engine, and no alert is emitted.
C8_EmptyIsNoData ==
    (PastUpdate /\ cycle > 0) =>
        /\ "index_price" \in snapshot.degraded => SamplesNow(price_points) = {}
        /\ "volatility_index" \in snapshot.degraded =>
               (SamplesNow(dvol_points) = {} /\ SamplesNow(analyzer.dvol_points) = {})
        /\ snapshot.degraded # {} => \A k \in DOMAIN alerts : alerts[k].cycle # cycle

\* The alerts of the current iteration with the given title.
AlertsNow(title) == {k \in DOMAIN alerts : alerts[k].cycle = cycle /\ alerts[k].title = title}

\* EVALUATE and ACT of the current iteration are behind.
PastAct == snapshot.fetched /\ m_pc \in {"SLEEP", "EXIT"}

\* What a failed FETCH must leave alone.
monitorData == <<price_points, dvol_points, analyzer, skew_history, alerts>>

\* C11: a FETCH that raises sends the iteration straight to SLEEP, and SLEEP
\* to the next FETCH; on both steps the price window, the volatility window,
\* the analyzer's window and history, the skew history and the alerts are
\* unchanged, so UPDATE, EVALUATE and ACT are skipped and no alert is emitted.
C11_FetchFailureSkipsCycle ==
    [][ /\ (m_pc = "FETCH" /\ ~snapshot'.fetched) =>
               (m_pc' = "SLEEP" /\ UNCHANGED monitorData)
        /\ (m_pc = "SLEEP" /\ ~snapshot.fetched) =>
               (m_pc' = "FETCH" /\ UNCHANGED monitorData) ]_vars

C11_Witness ==
    /\ m_pc = "FETCH"
    /\ cycle = 2
    /\ ~snapshot.fetched
    /\ price_points # <<>>
    /\ AlertsNow("Slow Bleed Trap") = {} /\ AlertsNow("IV Pulse Entry") = {}

\* C12: in single-shot mode the monitor never begins a second iteration.
C12_SingleShotOneCycle == once => cycle <= 1

\* C13: in an iteration whose slow-bleed rule is true, whatever the entry
\* rule says and whatever the thresholds are, ACT goes to SLEEP without
\* scanning, appends exactly the slow-bleed alert and leaves the skew history
\* alone; afterwards the iteration has one slow-bleed alert and no entry alert.
C13_SlowBleedSuppressesEntry ==
    /\ [][ (m_pc = "ACT" /\ signals.slow_bleed) =>
               /\ m_pc' = "SLEEP"
               /\ alerts' = Append(alerts, SlowBleedAlert)
               /\ UNCHANGED skew_history ]_vars
    /\ []( (PastAct /\ signals.slow_bleed) =>
               /\ Cardinality(AlertsNow("Slow Bleed Trap")) = 1
               /\ AlertsNow("IV Pulse Entry") = {} )

C13_Witness ==
    /\ PastAct
    /\ signals.slow_bleed
    /\ signals.entry_signal
    /\ snapshot.options # <<>>
    /\ Cardinality(AlertsNow("Slow Bleed Trap")) = 1

\* C14: with the default thresholds the entry rule of an iteration is true
\* exactly when both 1-hour changes are defined, the price change is <= -3%,
\* the volatility change is >= +10%, and the percentile rank is > 70 or the
\* range rank is > 50.
C14_EntryRuleAsClaimed ==
    (snapshot.fetched /\ m_pc = "ACT" /\ thresholds = DefaultThresholds) =>
        (signals.entry_signal <=>
            /\ signals.price_change_1h # None
            /\ signals.dvol_change_1h # None
            /\ RatioLeMille(signals.price_change_1h[1], -30)
            /\ RatioGeMille(signals.dvol_change_1h[1], 100)
            /\ (OrZeroGt(signals.metrics.ivp, 70) \/ OrZeroGt(signals.metrics.ivr, 50)))

\* C15: in an iteration where the entry rule fired and the slow-bleed rule
\* did not, if scan returned candidates there is exactly one entry alert and
\* it names a candidate whose (annualized yield, safety margin) is maximal
\* among them; if scan returned none there is no entry alert.
C15_EntryAlertNamesTop ==
    (PastAct /\ signals.entry_signal /\ ~signals.slow_bleed) =>
        LET cands == Scan(snapshot.options, snapshot.spot_price,
                          RealizedVol(snapshot.dvol), now_ts)
            mine == AlertsNow("IV Pulse Entry")
        IN IF cands = <<>> THEN mine = {}
           ELSE /\ Cardinality(mine) = 1
                /\ \A k \in mine :
                       \E i \in DOMAIN cands :
                           /\ cands[i].instrument_name = alerts[k].instrument
                           /\ \A j \in DOMAIN cands : KeyGe(cands[i], cands[j])

C15_Witness ==
    /\ PastAct
    /\ signals.entry_signal /\ ~signals.slow_bleed
    /\ \E k \in AlertsNow("IV Pulse Entry") : alerts[k].instrument = "P4"
    /\ Len(Scan(snapshot.options, snapshot.spot_price, RealizedVol(snapshot.dvol), now_ts)) = 4

(***************************************************************************)
(* Properties of the live chain (under SpecMonitor).                       *)
(***************************************************************************)
\* The iteration has fetched its chain and has not gone to sleep yet.
ChainFetched ==
    snapshot.fetched /\ m_pc \in {"UPDATE", "EVALUATE", "ACT", "SLEEP", "EXIT", "CRASHED"}

\* Every quote of the chain is a put with 14 to 30 days to expiry.
ChainIsPutsInRange ==
    \A i \in DOMAIN snapshot.options :
        /\ snapshot.options[i].option_type = "put"
        /\ 14 * DayUnits <= snapshot.options[i].exp[1] - now_ts
        /\ snapshot.options[i].exp[1] - now_ts <= 30 * DayUnits

\* C30: the chain fetched in live mode holds only puts with 14 to 30 days to
\* expiry, every entry alert reports insufficient data for the skew and for
\* the term structure with pricing_error false, and the skew history is
\* empty in every state.
C30_LiveChainPutsOnly ==
    /\ ChainFetched => ChainIsPutsInRange
    /\ skew_history = <<>>
    /\ \A k \in DOMAIN alerts :
          alerts[k].title = "IV Pulse Entry" =>
              /\ alerts[k].skew_signal = "insufficient_data"
              /\ alerts[k].term_signal = "insufficient_data"
              /\ ~alerts[k].pricing_error

C30_Witness ==
    /\ PastAct
    /\ Len(snapshot.options) = 4
    /\ \E k \in AlertsNow("IV Pulse Entry") :
          /\ alerts[k].skew_signal = "insufficient_data"
          /\ alerts[k].term_signal = "insufficient_data"
    /\ MedianIvByDte(snapshot.options, now_ts, 30, 3) = Some(140)
    /\ skew_history = <<>>

(***************************************************************************)
(* Properties of the analyzer's window (checked under SpecWindow).         *)
(***************************************************************************)
NonDecreasing(samples) == \A i \in 1..(Len(samples) - 1) : samples[i][1] <= samples[i + 1][1]

IsSuffixOf(w, s) == Len(w) <= Len(s) /\ w = SubSeq(s, Len(s) - Len(w) + 1, Len(s))

\* C16: after every add_dvol_point(ts, v) of a sequence of inserts with
\* non-decreasing timestamps, every retained sample has a timestamp
\* >= ts - 24h, the retained samples are a suffix of the inserted sequence in
\* insertion order, and the sample just inserted is retained.
C16_WindowRetention ==
    LET inserted == an_calls.add_dvol_point
        window == analyzer.dvol_points
    IN (inserted # <<>> /\ NonDecreasing(inserted)) =>
           /\ \A i \in DOMAIN window : window[i][1] >= inserted[Len(inserted)][1] - 48
           /\ IsSuffixOf(window, inserted)
           /\ window # <<>>
           /\ window[Len(window)] = inserted[Len(inserted)]

C16_Witness ==
    /\ Len(an_calls.add_dvol_point) = 3
    /\ NonDecreasing(an_calls.add_dvol_point)
    /\ Len(analyzer.dvol_points) = 2
    /\ analyzer.dvol_points[1][1] + 48 = analyzer.dvol_points[2][1]

(***************************************************************************)
(* Properties of set_dvol_history and compute_metrics (under SpecStats).   *)
(***************************************************************************)
\* The non-null values of an argument of set_dvol_history, in order.
NonNull(values) ==
    LET kept == SelectSeq(values, LAMBDA v : v # None)
    IN [i \in 1..Len(kept) |-> kept[i][1]]

\* The values compute_metrics is asked about.
CurrentValues == {c[1] : c \in Currents \ {None}}

\* A compute_metrics call with a value, on a non-empty history, is on record.
Computed ==
    /\ an_calls.compute_metrics # None
    /\ an_calls.compute_metrics[1].current # None
    /\ analyzer.dvol_history # <<>>

RatioLe(a, b) == a.num * b.den <= b.num * a.den

\* C17: after set_dvol_history(values) on an analyzer of lookback L >= 0, the
\* stored series has at most L entries and is the last min(L, number of
\* non-null inputs) non-null inputs in order, whatever was set before.
C17_HistoryWithinLookback ==
    an_calls.set_dvol_history # None =>
        LET nn == NonNull(an_calls.set_dvol_history[1].values)
            L == analyzer.lookback_days
            k == Min2(L, Len(nn))
        IN /\ Len(analyzer.dvol_history) <= L
           /\ analyzer.dvol_history = SubSeq(nn, Len(nn) - k + 1, Len(nn))

\* C18: for the stored non-empty history, the percentile rank is
\* non-decreasing in the current value, lies in [0, 100], is 100 for a value
\* above every history value and 0 for a value below every history value;
\* and compute_metrics returns that rank.
C18_IvpMonotoneBounded ==
    LET h == analyzer.dvol_history
        ivp(c) == ComputeIvp(h, Some(c))[1]
    IN h # <<>> =>
           /\ \A c1, c2 \in CurrentValues : c1 <= c2 => RatioLe(ivp(c1), ivp(c2))
           /\ \A c \in CurrentValues :
                  /\ 0 <= ivp(c).num /\ ivp(c).num <= 100 * ivp(c).den
                  /\ (\A i \in DOMAIN h : h[i] < c) => ivp(c).num = 100 * ivp(c).den
                  /\ (\A i \in DOMAIN h : h[i] > c) => ivp(c).num = 0
           /\ Computed =>
                  an_calls.compute_metrics[1].result.ivp
                      = Some(ivp(an_calls.compute_metrics[1].current[1]))

C18_Witness ==
    /\ Computed
    /\ analyzer.dvol_history = <<30, 20, 20>>
    /\ an_calls.compute_metrics[1].current = Some(20)
    /\ an_calls.compute_metrics[1].result.ivp # None
    /\ an_calls.compute_metrics[1].result.ivp[1].num = 300
    /\ an_calls.compute_metrics[1].result.ivp[1].den = 6

\* C19: the percentile rank compute_metrics returns is right/n*100 when
\* left = right and ((left + 1 + right)/2)/n*100 otherwise, where left and
\* right count the history values < and <= the current value and n is the
\* history length, in whatever order the history is; [10,20,20,30] with
\* current 20 gives 62.5.
C19_IvpMidRank ==
    Computed =>
        LET h == analyzer.dvol_history
            c == an_calls.compute_metrics[1].current[1]
            r == an_calls.compute_metrics[1].result.ivp[1]
            n == Len(h)
            left == Cardinality({i \in DOMAIN h : h[i] < c})
            right == Cardinality({i \in DOMAIN h : h[i] <= c})
        IN /\ an_calls.compute_metrics[1].result.ivp # None
           /\ IF left = right
                THEN r.num * n = right * 100 * r.den
                ELSE r.num * 2 * n = (left + 1 + right) * 100 * r.den
           /\ (NpSort(h) = <<10, 20, 20, 30>> /\ c = 20) => r.num * 10 = 625 * r.den

C19_Witness ==
    /\ Computed
    /\ analyzer.dvol_history = <<20, 30, 10, 20>>
    /\ an_calls.compute_metrics[1].current = Some(20)
    /\ an_calls.compute_metrics[1].result.ivp[1].num * 10
           = 625 * an_calls.compute_metrics[1].result.ivp[1].den

\* C20: the range rank compute_metrics returns is 0 for a flat history;
\* otherwise it is (current - min)/(max - min)*100 clamped to [0, 100]: 0 at
\* or below the minimum, 100 at or above the maximum; [10,20,30,40,50] with
\* current 40 gives 75.
C20_IvrRange ==
    Computed =>
        LET h == analyzer.dvol_history
            c == an_calls.compute_metrics[1].current[1]
            r == an_calls.compute_metrics[1].result.ivr[1]
            lo == SeqMin(h)
            hi == SeqMax(h)
        IN /\ an_calls.compute_metrics[1].result.ivr # None
           /\ r.den > 0
           /\ IF hi = lo THEN r.num = 0
              ELSE IF c <= lo THEN r.num = 0
              ELSE IF c >= hi THEN r.num = 100 * r.den
              ELSE r.num * (hi - lo) = (c - lo) * 100 * r.den
           /\ (h = <<10, 20, 30, 40, 50>> /\ c = 40) => r.num = 75 * r.den

C20_Witness ==
    /\ Computed
    /\ analyzer.dvol_history = <<10, 20, 30, 40, 50>>
    /\ an_calls.compute_metrics[1].current = Some(40)
    /\ an_calls.compute_metrics[1].result.ivr[1].num
           = 75 * an_calls.compute_metrics[1].result.ivr[1].den

(***************************************************************************)
(* Properties of compute_metrics among other calls (under SpecQuery).      *)
(***************************************************************************)
\* The step is a compute_metrics call.
ComputeStep ==
    /\ an_calls'.compute_metrics # None
    /\ an_calls'.add_dvol_point = an_calls.add_dvol_point
    /\ an_calls'.set_dvol_history = an_calls.set_dvol_history

\* C21: a compute_metrics call leaves the window and the history as they
\* were, and a call that repeats the argument of the call before it, with no
\* add_dvol_point or set_dvol_history in between, returns the same
\* (range rank, percentile rank, slope).
C21_ComputeMetricsIsPure ==
    [][ ComputeStep =>
            /\ analyzer' = analyzer
            /\ an_calls'.compute_metrics[1].again =>
                   an_calls'.compute_metrics[1].result = an_calls.compute_metrics[1].result ]_vars

C21_Witness ==
    /\ an_calls.compute_metrics # None
    /\ an_calls.compute_metrics[1].again
    /\ an_calls.compute_metrics[1].current = None
    /\ an_calls.compute_metrics[1].result.ivp # None
    /\ an_calls.compute_metrics[1].result.dvol_slope # None
    /\ an_calls.compute_metrics[1].result.dvol_slope[1].num # 0
    /\ Len(analyzer.dvol_points) = 2

(***************************************************************************)
(* Properties of scan (under SpecFunctions).                               *)
(***************************************************************************)
ScanCalled == fcall # NoCall /\ fcall[1].fn = "scan"

ScanReturned == ScanCalled /\ ~fcall[1].result.raised

\* The filter as the claim states it.
PassesAsClaimed(opt, now) ==
    /\ opt.option_type = "put"
    /\ "delta" \in DOMAIN opt /\ opt.delta # None
    /\ "mark_iv" \in DOMAIN opt /\ opt.mark_iv # None
    /\ 15 <= Abs(opt.delta[1]) /\ Abs(opt.delta[1]) <= 20
    /\ "exp" \in DOMAIN opt /\ opt.exp # None
    /\ 14 * DayUnits <= opt.exp[1] - now /\ opt.exp[1] - now <= 30 * DayUnits
    /\ LET bid == OptGet(opt, "bid", Some(0))[1]
           ask == OptGet(opt, "ask", Some(0))[1]
           mid2 == IF bid > 0 /\ ask > 0 THEN bid + ask ELSE 2 * Max2(bid, ask)
       IN mid2 > 0

NamesOf(opts) == [i \in DOMAIN opts |-> opts[i].name]

\* C22: what scan returns is, in input order, one candidate for each quote
\* that is a put with delta and implied vol present, |delta| in [0.15, 0.20],
\* days to expiry in [14, 30] and a positive mid price, and nothing else.
C22_ScanFilters ==
    ScanReturned =>
        LET a == fcall[1].args
            Pass(opt) == PassesAsClaimed(opt, a.now_ts)
        IN [i \in DOMAIN fcall[1].result.value |-> fcall[1].result.value[i].instrument_name]
               = NamesOf(SelectSeq(a.options, Pass))

C22_Witness ==
    /\ ScanReturned
    /\ NamesOf(fcall[1].args.options) = <<"d10", "ok">>
    /\ Len(fcall[1].result.value) = 1
    /\ fcall[1].result.value[1].delta = -18

\* C23: scan does not raise, whatever field of a quote is null or missing
\* and whatever the spot value.
C23_ScanNeverRaises == ScanCalled => ~fcall[1].result.raised

\* C24: with spot > 0 and realized volatility >= 0, every candidate has
\* non-negative premium, annualized yield, safety margin and volatility risk
\* premium.
C24_CandidatesNonNegative ==
    (ScanReturned /\ fcall[1].args.spot_price > 0 /\ fcall[1].args.realized_vol_24h >= 0) =>
        \A i \in DOMAIN fcall[1].result.value :
            LET c == fcall[1].result.value[i]
            IN /\ c.premium2 >= 0
               /\ c.annualized_yield.num * c.annualized_yield.den >= 0
               /\ c.margin_num >= 0
               /\ c.vrp >= 0

(***************************************************************************)
(* Properties of max_contracts_allowed (under SpecFunctions).              *)
(***************************************************************************)
RiskCalled == fcall # NoCall /\ fcall[1].fn = "max_contracts_allowed"

FindCalled == fcall # NoCall /\ fcall[1].fn = "_find_change_over_window"

\* Indices of the samples of the call within the hour before now.
InHour == {i \in DOMAIN fcall[1].args.points :
               fcall[1].args.points[i][1] >= fcall[1].args.now_ts - HourUnits}

\* The value of the first in-range sample, and of the last sample.
Earliest == fcall[1].args.points[CHOOSE i \in InHour : \A j \in InHour : i <= j][2]

Latest == fcall[1].args.points[Len(fcall[1].args.points)][2]

\* The change is (latest - earliest) / earliest, undefined without an
\* in-range sample or with earliest 0.
ChangeFormula ==
    IF fcall[1].args.points = <<>> \/ InHour = {} THEN fcall[1].result.value = None
    ELSE IF Earliest = 0 THEN fcall[1].result.value = None
    ELSE /\ fcall[1].result.value # None
         /\ fcall[1].result.value[1].num * Earliest
                = (Latest - Earliest) * fcall[1].result.value[1].den

\* The only in-range sample is the last one, inserted at now.
OnlyJustInserted ==
    /\ fcall[1].args.points # <<>>
    /\ InHour = {Len(fcall[1].args.points)}
    /\ fcall[1].args.points[Len(fcall[1].args.points)][1] = fcall[1].args.now_ts

IsZeroChange == fcall[1].result.value # None /\ fcall[1].result.value[1].num = 0

\* C26 as stated: the change is (latest - earliest)/earliest with the
\* undefined cases, and it is 0 whenever the only in-range sample is the one
\* just inserted.
C26_ChangeAsClaimed ==
    FindCalled => (ChangeFormula /\ (OnlyJustInserted => IsZeroChange))

\* C26 amended: the same, and it is 0 when the only in-range sample is the one
\* just inserted and its value is not 0 (with value 0 it is undefined).
C26_ChangeOverWindow ==
    FindCalled =>
        /\ ChangeFormula
        /\ OnlyJustInserted => IF Latest = 0 THEN fcall[1].result.value = None
                               ELSE IsZeroChange

C26_Witness ==
    /\ FindCalled
    /\ Len(fcall[1].args.points) = 2
    /\ fcall[1].args.points[1] = <<0, 96>>
    /\ OnlyJustInserted
    /\ Latest = 100
    /\ IsZeroChange

(***************************************************************************)
(* Properties of analyze_skew (under SpecFunctions).                       *)
(***************************************************************************)
SkewCalled == fcall # NoCall /\ fcall[1].fn = "analyze_skew"

\* Quotes of the call with delta, implied vol and expiry present, by
\* (expiry, type).
Matchable(exp, type) ==
    {i \in DOMAIN fcall[1].args.options :
        LET opt == fcall[1].args.options[i]
        IN /\ opt.delta # None /\ opt.mark_iv # None /\ opt.exp # None
           /\ opt.exp[1] = exp /\ opt.option_type = type}

\* Distance of the delta of quote i to the signed target.
TargetDistance(i) ==
    LET opt == fcall[1].args.options[i]
        t == fcall[1].args.target_delta
    IN IF opt.option_type = "put" THEN Abs(opt.delta[1] + Abs(t))
       ELSE Abs(opt.delta[1] - Abs(t))

\* i is the winner of its (expiry, type): least distance, first on a tie.
IsWinner(i, exp, type) ==
    /\ i \in Matchable(exp, type)
    /\ \A j \in Matchable(exp, type) :
          TargetDistance(i) < TargetDistance(j) \/ (TargetDistance(i) = TargetDistance(j) /\ i <= j)

PairedExpiries ==
    {e \in {fcall[1].args.options[i].exp[1] :
                i \in {j \in DOMAIN fcall[1].args.options : fcall[1].args.options[j].exp # None}} :
        Matchable(e, "put") # {} /\ Matchable(e, "call") # {}}

\* C28: the skew reported is put_iv - call_iv of the nearest-delta winners
\* (first on a tie) of a single expiry that has both a put and a call with
\* delta, implied vol and expiry present; with no such expiry the report is
\* insufficient data with a null skew.
C28_NearestDeltaSkew ==
    SkewCalled =>
        LET r == fcall[1].result.value
            opts == fcall[1].args.options
        IN IF PairedExpiries = {}
             THEN r.skew = None /\ r.signal = "insufficient_data"
             ELSE \E e \in PairedExpiries, p \in DOMAIN opts, c \in DOMAIN opts :
                     /\ IsWinner(p, e, "put")
                     /\ IsWinner(c, e, "call")
                     /\ r.skew = Some(opts[p].mark_iv[1] - opts[c].mark_iv[1])

C28_Witness ==
    /\ SkewCalled
    /\ NamesOf(fcall[1].args.options) = <<"pA", "pB", "cD">>
    /\ fcall[1].result.value.skew = Some(6)

\* Exact statistics of the history of the call: its sum and n^2 (n - 1)
\* times its Bessel-corrected variance.
HistSum == SumSeq(fcall[1].args.skew_history)

HistSpread ==
    LET h == fcall[1].args.skew_history
    IN SumSeq([i \in DOMAIN h |-> (Len(h) * h[i] - HistSum) * (Len(h) * h[i] - HistSum)])

\* (skew - mean) / std >= 2, for a positive std.
ZAtLeastTwo(skew) ==
    LET n == Len(fcall[1].args.skew_history)
        d == n * skew - HistSum
    IN d >= 0 /\ d * d * (n - 1) >= 4 * HistSpread

\* C29: pricing_error is true exactly when the history holds at least 5
\* values, its Bessel-corrected standard deviation is positive and
\* (skew - mean)/std >= 2.0; with fewer than 5 values or zero deviation the
\* z-score is null and pricing_error is false; the history is not modified.
C29_PricingErrorRule ==
    SkewCalled =>
        LET r == fcall[1].result.value
            h == fcall[1].args.skew_history
        IN /\ r.pricing_error <=> (/\ r.skew # None
                                   /\ Len(h) >= 5
                                   /\ HistSpread > 0
                                   /\ ZAtLeastTwo(r.skew[1]))
           /\ (Len(h) < 5 \/ HistSpread = 0) => (r.skew_z = None /\ ~r.pricing_error)
           /\ fcall[1].skew_history = h

(***************************************************************************)
(* Properties of the skew history (under SpecSkewHistory).                 *)
(***************************************************************************)
\* The history holds the most recent skews in the order they were computed.
InAppendOrder ==
    \A i \in 1..(Len(skew_history) - 1) : skew_history[i + 1] = skew_history[i] + 1

\* C27: the skew history never holds more than 120 values and is in append
\* order; an iteration with a non-null skew adds that one value at the end
\* (the length grows by one, or stays 120 with the oldest value evicted), and
\* an iteration with a null skew leaves the history as it was.
C27_SkewHistoryBounded ==
    /\ [](Len(skew_history) <= 120 /\ InAppendOrder)
    /\ [][ signals' # None =>
             IF signals'[1].skew = None THEN skew_history' = skew_history
             ELSE IF Len(skew_history) < 120
                    THEN skew_history' = Append(skew_history, signals'[1].skew[1])
                    ELSE skew_history' = Append(Tail(skew_history), signals'[1].skew[1]) ]_vars

C27_Witness ==
    /\ Len(skew_history) = 120
    /\ skew_history[1] = 3
    /\ skew_history[120] = 122
    /\ signals # None /\ signals[1].skew = None

\* ---------------------------------------------------------------------
\* Properties of the start-up history (under SpecMonitor)
\* ---------------------------------------------------------------------

\* The start-up request failed or answered with no rows.
NoHistoryData(o) == o.kind = "raise" \/ o.data = <<>>

\* The monitor is past start-up with an empty historical series.
StartedEmpty == m_pc # "START" /\ analyzer.dvol_history = <<>>

\* Both one-hour conditions of the entry rule hold in the current signals.
PulseConditionsHold ==
    /\ signals.price_change_1h # None /\ signals.dvol_change_1h # None
    /\ RatioLeMille(signals.price_change_1h[1], thresholds.entry_price_drop_1h)
    /\ RatioGeMille(signals.dvol_change_1h[1], thresholds.min_dvol_pulse)

\* C31: the historical series is set once at start-up and never refreshed:
\* a start-up request that fails or answers with no rows leaves the series
\* empty, no later step changes the series, and while it is empty the
\* range rank and the percentile rank are undefined, the entry rule is
\* false and no entry alert is sent, whatever the changes of price and
\* volatility are.
C31_EmptyHistoryNoEntry ==
    /\ [](StartedEmpty =>
            /\ signals.metrics.ivr = None /\ signals.metrics.ivp = None
            /\ ~signals.entry_signal
            /\ AlertsNow("IV Pulse Entry") = {})
    /\ [][/\ m_pc # "START" => analyzer'.dvol_history = analyzer.dvol_history
          /\ \A o \in HistoryResponses :
                (NoHistoryData(o) /\ Start(GetDvolHistory(o)))
                    => analyzer'.dvol_history = <<>>]_vars

\* A second cycle with an empty series in which the price fell and the
\* volatility rose by enough for the entry rule, and the rule is false.
C31_Witness ==
    /\ StartedEmpty /\ cycle = 2 /\ PastAct
    /\ PulseConditionsHold
    /\ ~signals.entry_signal

====
